---- MODULE Spec2Model ----
(***************************************************************************)
(* Model of the mutation-merging core: the range tombstone list           *)
(* (range_tombstone_list.cc), the reversible partition merge               *)
(* (mutation_partition.cc) and the view update merge-join (db/view/view.cc)*)
(***************************************************************************)
EXTENDS Integers, Sequences, FiniteSets, TLC

\* ------------------------------------------------------------------------
\* Bounds
\* ------------------------------------------------------------------------
MaxKey == 3          \* clustering keys are 0..MaxKey
MaxTs == 2           \* write timestamps are 1..MaxTs
MaxDel == 1          \* deletion times are 0..MaxDel
MaxAdds == 3         \* number of add() calls recorded in a history
MaxVecAdds == 4      \* number of add() calls of test vectors in a history

Keys == 0..MaxKey
Timestamps == 1..MaxTs
DeletionTimes == 0..MaxDel

VMaxKey == 1         \* clustering keys of the view builder's streams, 0..VMaxKey
MaxFrags == 2        \* fragments per stream handed to the view builder
PMaxKey == 1         \* clustering keys of partition rows are 0..PMaxKey
NumCols == 2         \* regular columns of the schema, ids 0..NumCols-1
MaxWrites == 3       \* writes made to the partitions before they are merged
MaxValue == 1        \* cell values of the view key column are 0..MaxValue
MaxExpiry == 2       \* expiry times of cells and row markers are 1..MaxExpiry
MaxCalls == 2        \* generate_update calls made by one build pass
CMaxKey == 3         \* clustering keys of a compacted partition, 0..CMaxKey
MaxLimit == 2        \* row_limit of compact_for_query, 1..MaxLimit
ClockBits == 2       \* width of gc_clock's count, standing for its 32 bits
MaxSyncs == 4        \* maybe_sync calls made on one registry entry
MaxVersions == 2     \* schema versions are 1..MaxVersions
MaxLoads == 3        \* get_or_load calls made on the registry
MaxMerges == 3       \* calls made on one range_tombstone_merger
MaxRanges == 2       \* ranges of a view's partition and clustering restrictions

VARIABLES rtl,       \* range_tombstone_list::_tombstones, in list order
          hist,      \* the add() calls made so far (history, not program state)
          updates,   \* view_update_builder::impl::_updates, fragments not yet fetched
          existings, \* impl::_existings, fragments not yet fetched
          upd_head,  \* impl::_update (mutation_fragment_opt), <<>> when disengaged
          ex_head,   \* impl::_existing (mutation_fragment_opt)
          upd_tracker, \* impl::_update_tombstone_tracker
          ex_tracker,  \* impl::_existing_tombstone_tracker
          vpc,       \* position of build(): start, loop, done, failed, aborted
          calls,     \* the generate_update(update, existing) calls made so far
          target,    \* the mutation_partition apply() is called on (*this)
          other,     \* the mutation_partition passed to apply() (p)
          third,     \* a third mutation_partition, merged after other
          snapshot,  \* copy of target taken before the last apply()
          mphase,    \* idle, build, applied, failed, self, commuted, chained
          writes,    \* number of writes made to the partitions
          gen_view,  \* index of the view_updates object generate_update is called on
          gen_update,   \* the update row handed to generate_update, <<>> when none
          gen_existing, \* the existing row handed to generate_update (optional)
          gen_filter,   \* what matches_view_filter answers for update and existing
          view_updates, \* impl::_view_updates: per view its _updates map
          gen_ops,   \* the entry operations run by the last generate_update
          touched,   \* the view rows get_view_row was asked for (history)
          markers,   \* what compute_row_marker returned, per view
          mutations, \* the vector build() resolves to
          gen_calls, \* number of generate_update calls made so far
          gphase,    \* idle, input, generated, marker, computed, loop, done, failed
          call_args,   \* the arguments of the call under check
          call_result, \* what the call returned and left behind, <<>> before it
          call_pc,     \* idle, call, returned
          entries,     \* schema_registry::_entries: version -> entry, absent when erased
          sync_state,  \* schema_registry_entry::_sync_state
          promises,    \* the shared promises created so far, by index
          futures,     \* the futures handed to the callers so far
          tasks,       \* continuations attached to loader and syncer futures
          open_tombstones,       \* range_tombstone_merger::_open_tombstones, top last
          end_contiguous_delete, \* range_tombstone_merger::_end_contiguous_delete
          merged       \* what the merger's calls returned or threw so far

rtlVars == <<rtl, hist>>
viewVars == <<updates, existings, upd_head, ex_head, upd_tracker, ex_tracker,
              vpc, calls>>
mpVars == <<target, other, third, snapshot, mphase, writes>>
genVars == <<gen_view, gen_update, gen_existing, gen_filter, view_updates,
             gen_ops, touched, markers, mutations, gen_calls, gphase>>
callVars == <<call_args, call_result, call_pc>>
regVars == <<entries, sync_state, promises, futures, tasks>>
mergerVars == <<open_tombstones, end_contiguous_delete, merged>>
vars == <<rtl, hist, updates, existings, upd_head, ex_head, upd_tracker,
          ex_tracker, vpc, calls, target, other, third, snapshot, mphase,
          writes, gen_view, gen_update, gen_existing, gen_filter,
          view_updates, gen_ops, touched, markers, mutations, gen_calls,
          gphase, call_args, call_result, call_pc, entries, sync_state,
          promises, futures, tasks, open_tombstones, end_contiguous_delete,
          merged>>

\* ------------------------------------------------------------------------
\* tombstone
\* ------------------------------------------------------------------------
Tomb(ts, dt) == [timestamp |-> ts, deletion_time |-> dt]

\* tombstone(): missing timestamp, compares below every real tombstone
EmptyTombstone == Tomb(0, 0)

Tombstones == {Tomb(ts, dt) : ts \in Timestamps, dt \in DeletionTimes}

\* tombstone ordering: timestamp first, then deletion_time
tombstone_compare(a, b) ==
    IF a.timestamp < b.timestamp THEN -1
    ELSE IF a.timestamp > b.timestamp THEN 1
    ELSE IF a.deletion_time < b.deletion_time THEN -1
    ELSE IF a.deletion_time > b.deletion_time THEN 1
    ELSE 0

tombstone_gt(a, b) == tombstone_compare(a, b) > 0

\* ------------------------------------------------------------------------
\* range_tombstone and the list primitives of the intrusive container
\* ------------------------------------------------------------------------
RT(start, stop, tomb) == [start |-> start, stop |-> stop, tomb |-> tomb]

InsertAfter(l, it, rt) == SubSeq(l, 1, it) \o <<rt>> \o SubSeq(l, it + 1, Len(l))

\* insert_before(it, rt): positional insert, the container is not re-sorted
InsertBefore(l, it, rt) == SubSeq(l, 1, it - 1) \o <<rt>> \o SubSeq(l, it, Len(l))

\* erase_and_dispose(it)
Erase(l, it) == SubSeq(l, 1, it - 1) \o SubSeq(l, it + 1, Len(l))

\* *it = {...}: in-place assignment of the element at it
Assign(l, it, rt) == [l EXCEPT ![it] = rt]

\* lower_bound(key, range_tombstone::compare): first element whose stop is
\* not before key; Len(l) + 1 stands for end()
lower_bound(l, key) ==
    IF \E i \in 1..Len(l) : ~(l[i].stop < key)
    THEN CHOOSE i \in 1..Len(l) :
            /\ ~(l[i].stop < key)
            /\ \A j \in 1..(i - 1) : l[j].stop < key
    ELSE Len(l) + 1

\* the timestamp test of insert_from: the new tombstone overwrites the
\* current element only when its timestamp is strictly greater
overwrites_inverted(tomb, cur) == tomb.timestamp < cur.tomb.timestamp

overwrites(tomb, cur) == tomb.timestamp > cur.tomb.timestamp

\* ------------------------------------------------------------------------
\* range_tombstone_list::insert_from
\* ------------------------------------------------------------------------
RECURSIVE insert_from(_, _, _, _, _)
insert_from(l, it, start, stop, tomb) ==
    IF it > Len(l)
    THEN Append(l, RT(start, stop, tomb))
    ELSE LET cur == l[it] IN
      IF start = cur.stop
      THEN IF cur.start = cur.stop
           THEN IF overwrites(tomb, cur)
                THEN insert_from(Erase(l, it), it, start, stop, tomb)
                ELSE IF start = stop
                     THEN l
                     ELSE insert_from(l, it + 1, start, stop, tomb)
           ELSE insert_from(l, it + 1, start, stop, tomb)
      ELSE IF overwrites(tomb, cur)
      THEN \* the new tombstone overwrites the current one
           LET split == cur.start < start
               l1 == IF split
                     THEN InsertBefore(l, it, RT(cur.start, start, cur.tomb))
                     ELSE l
               it1 == IF split THEN it + 1 ELSE it
           IN IF stop < cur.start
              THEN InsertBefore(l1, it1, RT(start, stop, tomb))
              ELSE IF stop = cur.start /\ cur.start = cur.stop
              THEN Assign(l1, it1, RT(start, stop, tomb))
              ELSE IF stop < cur.stop
              THEN Assign(InsertBefore(l1, it1, RT(start, stop, tomb)),
                          it1 + 1, RT(stop, cur.stop, cur.tomb))
              ELSE IF it1 = Len(l1) \/ ~(l1[it1 + 1].start < stop)
              THEN Assign(l1, it1, RT(start, stop, tomb))
              ELSE IF stop = cur.stop
              THEN Assign(l1, it1, RT(start, cur.stop, tomb))
              ELSE insert_from(Assign(l1, it1, RT(start, cur.stop, tomb)),
                               it1 + 1, cur.stop, stop, tomb)
      ELSE \* the current tombstone is kept
           IF start < cur.start /\ ~(cur.start < stop)
           THEN InsertBefore(l, it, RT(start, stop, tomb))
           ELSE LET lead == start < cur.start
                    l1 == IF lead
                          THEN InsertBefore(l, it, RT(start, cur.start, tomb))
                          ELSE l
                    it1 == IF lead THEN it + 1 ELSE it
                IN IF cur.stop < stop
                   THEN insert_from(l1, it1 + 1, cur.stop, stop, tomb)
                   ELSE l1

add_always_append(l, start, stop, tomb) == Append(l, RT(start, stop, tomb))

\* range_tombstone_list::add
add(l, start, stop, tomb) ==
    IF Len(l) > 0 /\ ~(l[Len(l)].stop < start)
    THEN insert_from(l, lower_bound(l, start), start, stop, tomb)
    ELSE Append(l, RT(start, stop, tomb))

search_without_lookahead(l, key) ==
    LET it == lower_bound(l, key) IN
    IF it > Len(l) \/ key < l[it].start THEN EmptyTombstone ELSE l[it].tomb

\* range_tombstone_list::search_tombstone_covering
search_tombstone_covering(l, key) ==
    LET it == lower_bound(l, key) IN
    IF it > Len(l) \/ key < l[it].start
    THEN EmptyTombstone
    ELSE IF /\ it < Len(l)
            /\ ~(key < l[it + 1].start)
            /\ tombstone_gt(l[it + 1].tomb, l[it].tomb)
         THEN l[it + 1].tomb
         ELSE l[it].tomb

\* ------------------------------------------------------------------------
\* Inputs of add(): well-formed closed ranges, and the literal ranges used
\* by the unit tests, rt(start, stop, timestamp) with deletion time gc_now
\* ------------------------------------------------------------------------
Ranges == {RT(s, e, t) : s \in Keys, e \in Keys, t \in Tombstones}
WellFormed == {r \in Ranges : r.start <= r.stop}

gc_now == 0
rt(start, stop, timestamp) == RT(start, stop, Tomb(timestamp, gc_now))

TestVectors ==
    { rt(1, 5, 3), rt(7, 10, 2), rt(10, 13, 1),
      rt(4, 10, 3), rt(1, 7, 2), rt(8, 13, 4), rt(0, 15, 1),
      rt(0, 10, 3), rt(3, 7, 5), rt(3, 7, 2),
      rt(11, 12, 2), rt(1, 4, 2), rt(4, 10, 5),
      rt(4, 4, 5), rt(4, 4, 6), rt(4, 4, 4),
      rt(1, 2, 10), rt(7, 13, 8), rt(13, 13, 20), rt(13, 18, 12), rt(13, 18, 32) }

\* ------------------------------------------------------------------------
\* State machine of the range tombstone list
\* ------------------------------------------------------------------------
\* tombstone_tracker(s, partition_tombstone): no current range tombstone
Tracker(pt) == [pt |-> pt, rt |-> <<>>]

ViewIdle ==
    /\ updates = <<>>
    /\ existings = <<>>
    /\ upd_head = <<>>
    /\ ex_head = <<>>
    /\ upd_tracker = Tracker(EmptyTombstone)
    /\ ex_tracker = Tracker(EmptyTombstone)
    /\ vpc = "idle"
    /\ calls = <<>>

\* no partition is being merged
PartitionIdle ==
    /\ target = <<>>
    /\ other = <<>>
    /\ third = <<>>
    /\ snapshot = <<>>
    /\ mphase = "idle"
    /\ writes = 0

\* no view_updates object is in use
GenIdle ==
    /\ gen_view = 0
    /\ gen_update = <<>>
    /\ gen_existing = <<>>
    /\ gen_filter = <<>>
    /\ view_updates = <<>>
    /\ gen_ops = <<>>
    /\ touched = {}
    /\ markers = <<>>
    /\ mutations = <<>>
    /\ gen_calls = 0
    /\ gphase = "idle"

\* no schema registry is in use
RegistryIdle ==
    /\ entries = <<>>
    /\ sync_state = "idle"
    /\ promises = <<>>
    /\ futures = <<>>
    /\ tasks = <<>>

\* no range_tombstone_merger is in use
MergerIdle ==
    /\ open_tombstones = <<>>
    /\ end_contiguous_delete = <<>>
    /\ merged = <<>>

\* no call is under check
CallIdle ==
    /\ call_args = <<>>
    /\ call_result = <<>>
    /\ call_pc = "idle"

InitRTL ==
    /\ CallIdle
    /\ rtl = <<>>
    /\ hist = <<>>
    /\ ViewIdle
    /\ PartitionIdle
    /\ GenIdle
    /\ RegistryIdle
    /\ MergerIdle

\* l.add(s, rt) for a well-formed range
Add ==
    /\ Len(hist) < MaxAdds
    /\ \E r \in WellFormed :
          /\ rtl' = add(rtl, r.start, r.stop, r.tomb)
          /\ hist' = Append(hist, r)
    /\ UNCHANGED <<viewVars, callVars, regVars, mergerVars, mpVars, genVars>>

\* l.add(s, rt) for one of the ranges of the unit tests
AddVector ==
    /\ Len(hist) < MaxVecAdds
    /\ \E r \in TestVectors :
          /\ rtl' = add(rtl, r.start, r.stop, r.tomb)
          /\ hist' = Append(hist, r)
    /\ UNCHANGED <<viewVars, callVars, regVars, mergerVars, mpVars, genVars>>

NextRTL == Add
SpecRTL == InitRTL /\ [][NextRTL]_vars

NextVec == AddVector
SpecVec == InitRTL /\ [][NextVec]_vars

\* ------------------------------------------------------------------------
\* View update builder: fragments, trackers and the merge-join
\* ------------------------------------------------------------------------
VKeys == 0..VMaxKey

\* tombstones carried by the streams (one deletion time)
ViewTombs == {Tomb(ts, 0) : ts \in Timestamps}

\* mutation_fragment: a clustering row (key, row tombstone, marker, cells)
\* or a range tombstone [key, end] with inclusive bounds
RowFrag(k, t, m, c) ==
    [kind |-> "row", key |-> k, end |-> k, tomb |-> t, marker |-> m, cells |-> c]
RtFrag(k, e, t) ==
    [kind |-> "rt", key |-> k, end |-> e, tomb |-> t, marker |-> FALSE, cells |-> FALSE]

RowFrags == {RowFrag(k, EmptyTombstone, m, c) : k \in VKeys, m \in BOOLEAN, c \in BOOLEAN}
RtFrags == {RtFrag(k, e, t) : k \in VKeys, e \in VKeys, t \in ViewTombs}
Fragments == RowFrags \cup {f \in RtFrags : f.key <= f.end}

is_range_tombstone(f) == f.kind = "rt"

\* mutation_fragment::position(): a range tombstone sits at its start bound,
\* before the row with the same key
position(f) == IF is_range_tombstone(f) THEN 2 * f.key ELSE 2 * f.key + 1

\* position_in_partition::tri_compare
tri_compare(a, b) == IF a < b THEN 0 - 1 ELSE IF a > b THEN 1 ELSE 0

\* streams are strictly increasing by position
Ordered(st) == \A i \in 1..(Len(st) - 1) : position(st[i]) < position(st[i + 1])

Streams ==
    {st \in UNION {[1..n -> Fragments] : n \in 0..MaxFrags} : Ordered(st)}

\* tombstone::apply: keep the greater tombstone
tombstone_apply(a, b) == IF tombstone_compare(a, b) < 0 THEN b ELSE a

\* bool(tombstone)
tombstone_set(t) == t.timestamp # 0

\* clustering_row::apply(tombstone)
row_apply(row, t) == [row EXCEPT !.tomb = tombstone_apply(row.tomb, t)]

\* clustering_row::empty()
row_empty(row) == ~tombstone_set(row.tomb) /\ ~row.marker /\ ~row.cells

\* clustering_row(key, tombstone, row_marker(), row())
tombstone_row(k, t) == RowFrag(k, t, FALSE, FALSE)

\* tombstone_tracker::apply(range_tombstone&&)
tracker_apply(tr, f) ==
    [tr EXCEPT !.rt = <<[f EXCEPT !.tomb = tombstone_apply(f.tomb, tr.pt)]>>]

\* tombstone_tracker::current_tombstone
current_tombstone(tr) == IF tr.rt # <<>> THEN tr.rt[1].tomb ELSE tr.pt

\* tombstone_tracker::apply_to.  The optional is dereferenced without a
\* test: when it is disengaged the read is undefined, and the outcomes are
\* a comparison that fails (the reset is then a no-op), a comparison that
\* succeeds with whatever tombstone the storage holds, or a crash.
apply_to(tr, row) ==
    IF tr.rt # <<>>
    THEN IF row.key <= tr.rt[1].end
         THEN {[tr |-> tr, row |-> row_apply(row, tr.rt[1].tomb), ok |-> TRUE]}
         ELSE {[tr |-> [tr EXCEPT !.rt = <<>>], row |-> row, ok |-> TRUE]}
    ELSE {[tr |-> tr, row |-> row, ok |-> TRUE],
          [tr |-> tr, row |-> row, ok |-> FALSE]}
         \cup {[tr |-> tr, row |-> row_apply(row, t), ok |-> TRUE] : t \in ViewTombs}

\* outcome of one on_results call: the trackers, the generate_update call
\* made (if any) and how the step ends
Outcome(ut, et, call, next) == [ut |-> ut, et |-> et, call |-> call, next |-> next]

\* impl::generate_update: throws on an empty update, otherwise hands the
\* pair to every view
generate_update(ut, et, update, existing, real, next) ==
    IF row_empty(update)
    THEN Outcome(ut, et, <<>>, "throw")
    ELSE Outcome(ut, et,
                 <<[update |-> update, existing |-> existing, real |-> real]>>,
                 next)

\* on_results, lines 455-469: the update precedes the existing fragment
update_first(u, e, ut, et) ==
    IF is_range_tombstone(u)
    THEN {Outcome(tracker_apply(ut, u), et, <<>>, "advance_updates")}
    ELSE {IF ~a.ok
          THEN Outcome(ut, et, <<>>, "abort")
          ELSE LET tombstone == current_tombstone(et)
                   existing == IF tombstone_set(tombstone)
                               THEN <<tombstone_row(a.row.key, tombstone)>>
                               ELSE <<>>
               IN generate_update(a.tr, et, a.row, existing, FALSE, "advance_updates")
          : a \in apply_to(ut, u)}

\* on_results, lines 470-488: the existing fragment has no update
existing_first(u, e, ut, et) ==
    IF is_range_tombstone(e)
    THEN {Outcome(ut, tracker_apply(et, e), <<>>, "advance_existings")}
    ELSE {IF ~a.ok
          THEN Outcome(ut, et, <<>>, "abort")
          ELSE LET tombstone == current_tombstone(ut) IN
               IF tombstone_set(tombstone)
               THEN generate_update(ut, a.tr, tombstone_row(a.row.key, tombstone),
                                    <<a.row>>, TRUE, "advance_existings")
               ELSE Outcome(ut, a.tr, <<>>, "advance_existings")
          : a \in apply_to(et, e)}

\* on_results, lines 489-500: a row that had pre-existing data
both_heads(u, e, ut, et) ==
    IF is_range_tombstone(u)
    THEN IF ~is_range_tombstone(e)
         THEN {Outcome(ut, et, <<>>, "abort")}
         ELSE {Outcome(tracker_apply(ut, u), tracker_apply(et, e), <<>>, "advance_all")}
    ELSE IF is_range_tombstone(e)
         THEN {Outcome(ut, et, <<>>, "abort")}
         ELSE {IF ~a.ok \/ ~b.ok
               THEN Outcome(ut, et, <<>>, "abort")
               ELSE generate_update(a.tr, b.tr, a.row, <<b.row>>, TRUE, "advance_all")
               : a \in apply_to(ut, u), b \in apply_to(et, e)}

\* on_results, lines 503-520: at most one head is engaged
one_head(uh, eh, ut, et) ==
    LET tombstone == current_tombstone(ut) IN
    IF tombstone_set(tombstone) /\ eh # <<>>
    THEN IF ~is_range_tombstone(eh[1])
         THEN {generate_update(ut, et, tombstone_row(eh[1].key, tombstone),
                               <<eh[1]>>, TRUE, "advance_existings")}
         ELSE {Outcome(ut, et, <<>>, "advance_existings")}
    ELSE IF uh # <<>> /\ ~is_range_tombstone(uh[1])
    THEN {generate_update(ut, et, uh[1], <<>>, FALSE, "advance_updates")}
    ELSE {Outcome(ut, et, <<>>, "stop")}

\* view_update_builder::impl::on_results
on_results(uh, eh, ut, et) ==
    IF uh # <<>> /\ eh # <<>>
    THEN LET cmp == tri_compare(position(uh[1]), position(eh[1])) IN
         IF cmp < 0
         THEN update_first(uh[1], eh[1], ut, et)
         ELSE IF cmp < 0
         THEN existing_first(uh[1], eh[1], ut, et)
         ELSE both_heads(uh[1], eh[1], ut, et)
    ELSE one_head(uh, eh, ut, et)

\* streamed_mutation::operator(): the next fragment, disengaged at the end
Fetch(st) == IF st = <<>> THEN <<>> ELSE <<Head(st)>>

\* a stream that hands out its first fragment again and again
Rest_stuck(st) == st

Rest(st) == IF st = <<>> THEN <<>> ELSE Tail(st)

InitView ==
    /\ CallIdle
    /\ rtl = <<>>
    /\ hist = <<>>
    /\ updates \in Streams
    /\ existings \in Streams
    /\ upd_head = <<>>
    /\ ex_head = <<>>
    /\ upd_tracker \in {Tracker(t) : t \in ViewTombs \cup {EmptyTombstone}}
    /\ ex_tracker \in {Tracker(t) : t \in ViewTombs \cup {EmptyTombstone}}
    /\ vpc = "start"
    /\ calls = <<>>
    /\ PartitionIdle
    /\ GenIdle
    /\ RegistryIdle
    /\ MergerIdle

\* build(): the initial advance_all
Build ==
    /\ vpc = "start"
    /\ upd_head' = Fetch(updates)
    /\ updates' = Rest(updates)
    /\ ex_head' = Fetch(existings)
    /\ existings' = Rest(existings)
    /\ vpc' = "loop"
    /\ UNCHANGED <<upd_tracker, ex_tracker, calls, rtlVars, callVars, regVars, mergerVars, mpVars, genVars>>

\* one iteration of repeat(): on_results and the advance it returns
OnResults ==
    /\ vpc = "loop"
    /\ \E o \in on_results(upd_head, ex_head, upd_tracker, ex_tracker) :
          /\ upd_tracker' = o.ut
          /\ ex_tracker' = o.et
          /\ calls' = calls \o o.call
          /\ vpc' = CASE o.next = "stop" -> "done"
                      [] o.next = "throw" -> "failed"
                      [] o.next = "abort" -> "aborted"
                      [] OTHER -> "loop"
          /\ IF o.next \in {"advance_updates", "advance_all"}
             THEN upd_head' = Fetch(updates) /\ updates' = Rest(updates)
             ELSE UNCHANGED <<upd_head, updates>>
          /\ IF o.next \in {"advance_existings", "advance_all"}
             THEN ex_head' = Fetch(existings) /\ existings' = Rest(existings)
             ELSE UNCHANGED <<ex_head, existings>>
    /\ UNCHANGED <<rtlVars, callVars, regVars, mergerVars, mpVars, genVars>>

NextView == Build \/ OnResults
SpecView == InitView /\ [][NextView]_vars

\* ------------------------------------------------------------------------
\* mutation_partition: atomic cells and the row of cells
\* ------------------------------------------------------------------------
PKeys == 0..PMaxKey
Columns == 0..(NumCols - 1)

\* tombstones written to partitions
PTombs == Tombstones

\* atomic_cell_or_collection: a null (moved-from) value or a live atomic
\* cell with its write timestamp and the REVERT flag
NullCell == [null |-> TRUE, timestamp |-> 0, revert |-> FALSE]
LiveCell(ts) == [null |-> FALSE, timestamp |-> ts, revert |-> FALSE]

\* compare_atomic_cell_for_merge on live cells: the larger timestamp wins
compare_atomic_cell_for_merge(left, right) ==
    tri_compare(left.timestamp, right.timestamp)

\* ::apply_reversibly(def, dst, src) for an atomic column
cell_apply_reversibly(dst, src) ==
    IF compare_atomic_cell_for_merge(dst, src) < 0
    THEN [dst |-> src, src |-> [dst EXCEPT !.revert = TRUE]]
    ELSE [dst |-> dst, src |-> [src EXCEPT !.revert = FALSE]]

\* ::revert(def, dst, src) for an atomic column
cell_revert(dst, src) ==
    IF src.revert
    THEN [dst |-> [src EXCEPT !.revert = FALSE], src |-> dst]
    ELSE [dst |-> dst, src |-> src]

\* row: per column the present bit and the stored value
NoCell == [present |-> FALSE, cell |-> NullCell]
EmptyRow == [c \in Columns |-> NoCell]

\* row::size()
row_size(r) == Cardinality({c \in Columns : r[c].present})

\* the merged or reverted pair m stored back: dst's cell of column c, and
\* the value left in the source
store_cell(dst, c, m) == [dst |-> [dst EXCEPT ![c].cell = m.dst], src |-> m.src]

\* row::apply_reversibly(column, value): a missing cell takes the value by
\* move (the source is left null), a present one is merged
row_apply_cell(dst, c, value) ==
    IF dst[c].cell.null
    THEN [dst |-> [dst EXCEPT ![c] = [present |-> TRUE, cell |-> value]],
          src |-> NullCell]
    ELSE store_cell(dst, c, cell_apply_reversibly(dst[c].cell, value))

\* row::revert(column, src)
row_revert_cell(dst, c, src) ==
    IF src.null
    THEN [dst |-> [dst EXCEPT ![c] = [present |-> FALSE, cell |-> src]],
          src |-> dst[c].cell]
    ELSE store_cell(dst, c, cell_revert(dst[c].cell, src))

\* a reversible merge that threw: both sides as the rollback left them
Thrown(r) == [ok |-> FALSE, dst |-> r.dst, src |-> r.src]

\* for_each_cell(func, rollback), the catch block: roll back columns i-1..0
RECURSIVE RollbackCells(_, _, _)
RollbackCellsFrom(m, src, i) ==
    RollbackCells(m.dst, [src EXCEPT ![i].cell = m.src], i)

RollbackCells(dst, src, i) ==
    IF i = 0 THEN [dst |-> dst, src |-> src]
    ELSE IF ~src[i - 1].present THEN RollbackCells(dst, src, i - 1)
    ELSE RollbackCellsFrom(row_revert_cell(dst, i - 1, src[i - 1].cell), src, i - 1)

\* for_each_cell(func, rollback), the try block: apply the present cells of
\* src from column c on; the call for column failcol throws, and the cells
\* applied before it are rolled back
RECURSIVE ApplyCells(_, _, _, _)
ApplyCellsFrom(m, src, c, failcol) ==
    ApplyCells(m.dst, [src EXCEPT ![c].cell = m.src], c + 1, failcol)

ApplyCells(dst, src, c, failcol) ==
    IF c >= NumCols THEN [ok |-> TRUE, dst |-> dst, src |-> src]
    ELSE IF ~src[c].present THEN ApplyCells(dst, src, c + 1, failcol)
    ELSE IF c = failcol THEN Thrown(RollbackCells(dst, src, c))
    ELSE ApplyCellsFrom(row_apply_cell(dst, c, src[c].cell), src, c, failcol)

\* row::apply_reversibly(s, kind, other)
row_apply_reversibly(dst, src, failcol) ==
    IF row_size(src) = 0 THEN [ok |-> TRUE, dst |-> dst, src |-> src]
    ELSE ApplyCells(dst, src, 0, failcol)

\* row::revert(s, kind, other): revert every present cell of other
RECURSIVE RevertCells(_, _, _)
RevertCellsFrom(m, src, c) ==
    RevertCells(m.dst, [src EXCEPT ![c].cell = m.src], c + 1)

RevertCells(dst, src, c) ==
    IF c >= NumCols THEN [dst |-> dst, src |-> src]
    ELSE IF ~src[c].present THEN RevertCells(dst, src, c + 1)
    ELSE RevertCellsFrom(row_revert_cell(dst, c, src[c].cell), src, c)

row_revert(dst, src) == RevertCells(dst, src, 0)

\* row::equal: same size and the same present cells, column by column
row_equal(a, b) ==
    /\ row_size(a) = row_size(b)
    /\ \A c \in Columns : /\ a[c].present = b[c].present
                          /\ a[c].present => a[c].cell = b[c].cell

\* row::apply(column, value): merge a copy of the value
row_apply_value(r, c, value) == row_apply_cell(r, c, value).dst

\* ------------------------------------------------------------------------
\* mutation_partition: row markers, row tombstones and clustered rows
\* ------------------------------------------------------------------------
\* row_marker::no_ttl and row_marker::dead, the two sentinels of _ttl
no_ttl == 0
dead == 0 - 1

\* row_marker: _timestamp (0 when missing), _ttl, _expiry (the deletion
\* time of a dead marker)
Marker(ts, ttl, expiry) == [timestamp |-> ts, ttl |-> ttl, expiry |-> expiry]
MissingMarker == Marker(0, no_ttl, 0)
LiveMarker(ts) == Marker(ts, no_ttl, 0)
ExpiringMarker(ts) == Marker(ts, 1, 1)
DeadMarker(ts) == Marker(ts, dead, 0)

Markers ==
    {LiveMarker(ts) : ts \in Timestamps}
        \cup {ExpiringMarker(ts) : ts \in Timestamps}
        \cup {DeadMarker(ts) : ts \in Timestamps}

is_missing(m) == m.timestamp = 0
is_live(m) == ~is_missing(m) /\ m.ttl # dead
is_expiring(m) == m.ttl # no_ttl

\* the deletion time's count taken at its full signed width
full_width_count(t) == t

\* (uint32_t) deletion_time().time_since_epoch().count()
uint32_count(t) == t % (2 ^ ClockBits)

\* compare_row_marker_for_merge
compare_row_marker_for_merge(left, right) ==
    IF left.timestamp # right.timestamp
    THEN (IF left.timestamp > right.timestamp THEN 1 ELSE 0 - 1)
    ELSE IF is_live(left) # is_live(right)
    THEN (IF is_live(left) THEN 0 - 1 ELSE 1)
    ELSE IF is_live(left)
    THEN (IF is_expiring(left) /\ is_expiring(right) /\ left.expiry # right.expiry
          THEN (IF left.expiry < right.expiry THEN 0 - 1 ELSE 1)
          ELSE 0)
    ELSE IF left.expiry # right.expiry
    THEN (IF uint32_count(left.expiry) < uint32_count(right.expiry)
          THEN 0 - 1
          ELSE 1)
    ELSE 0

\* an apply that keeps the marker it is called on
marker_apply_reversibly_keep(dst, rm) == [dst |-> dst, src |-> dst]

\* row_marker::apply_reversibly
marker_apply_reversibly(dst, rm) ==
    IF compare_row_marker_for_merge(dst, rm) < 0
    THEN [dst |-> rm, src |-> dst]
    ELSE [dst |-> dst, src |-> dst]

\* row_marker::revert
marker_revert(dst, rm) == [dst |-> rm, src |-> dst]

\* row_marker::apply(const row_marker&)
marker_apply(dst, rm) ==
    IF compare_row_marker_for_merge(dst, rm) < 0 THEN rm ELSE dst

\* tombstone::apply_reversibly: swap, then apply
tombstone_apply_reversibly(dst, t) ==
    [dst |-> tombstone_apply(t, dst), src |-> dst]

\* tombstone::revert
tombstone_revert(dst, t) == [dst |-> t, src |-> dst]

\* rows_entry with its deletable_row; exists is membership in _rows
Entry(dt, m, cells) ==
    [exists |-> TRUE, deleted_at |-> dt, marker |-> m, cells |-> cells]
EmptyEntry == Entry(EmptyTombstone, MissingMarker, EmptyRow)
NoEntry == [EmptyEntry EXCEPT !.exists = FALSE]

\* deletable_row::empty()
deletable_row_empty(e) ==
    ~tombstone_set(e.deleted_at) /\ is_missing(e.marker) /\ row_size(e.cells) = 0

\* deletable_row::equal
deletable_row_equal(a, b) ==
    /\ a.deleted_at = b.deleted_at
    /\ a.marker = b.marker
    /\ row_equal(a.cells, b.cells)

\* the entries of both sides put together from their tombstones t, markers
\* m and cells c
EntryPair(t, m, c) ==
    [ok |-> TRUE,
     dst |-> Entry(t.dst, m.dst, c.dst),
     src |-> Entry(t.src, m.src, c.src)]

\* deletable_row::apply_reversibly after the cells: when they threw nothing
\* else is touched, otherwise the row tombstone and the marker are merged
deletable_row_apply_rest(dst, src, c) ==
    IF ~c.ok
    THEN [ok |-> FALSE,
          dst |-> [dst EXCEPT !.cells = c.dst],
          src |-> [src EXCEPT !.cells = c.src]]
    ELSE EntryPair(tombstone_apply_reversibly(dst.deleted_at, src.deleted_at),
                   marker_apply_reversibly(dst.marker, src.marker), c)

\* deletable_row::apply_reversibly: the cells first (they may throw), then
\* the row tombstone and the marker
deletable_row_apply_reversibly(dst, src, failcol) ==
    deletable_row_apply_rest(dst, src,
        row_apply_reversibly(dst.cells, src.cells, failcol))

\* deletable_row::revert
deletable_row_revert(dst, src) ==
    EntryPair(tombstone_revert(dst.deleted_at, src.deleted_at),
              marker_revert(dst.marker, src.marker),
              row_revert(dst.cells, src.cells))

\* ------------------------------------------------------------------------
\* mutation_partition: the reversible merge of the row sets
\* ------------------------------------------------------------------------
\* _rows: the entry of every clustering key, NoEntry where the set has none
NoRows == [k \in PKeys |-> NoEntry]

\* a failure point of apply(): the stage that throws, and for the row
\* stages the key and column being merged when it does
Failure(stage, k, c) == [stage |-> stage, key |-> k, col |-> c]
NoFailure == Failure("none", 0, 0)

\* the columns a row holds a cell for
present_columns(r) == {c \in Columns : r[c].present}

\* revert_intrusive_set_range(dst, src, start, end): the source entries with
\* keys k..end-1; an empty source entry is taken for the placeholder of a
\* key dst did not have, and the dst entry is moved back to src
RECURSIVE revert_intrusive_set_range(_, _, _, _)
revert_entry(dst, src, k, end, m) ==
    revert_intrusive_set_range([dst EXCEPT ![k] = m.dst],
                               [src EXCEPT ![k] = m.src], k + 1, end)

revert_intrusive_set_range(dst, src, k, end) ==
    IF k >= end THEN [dst |-> dst, src |-> src]
    ELSE IF ~src[k].exists THEN revert_intrusive_set_range(dst, src, k + 1, end)
    ELSE IF deletable_row_empty(src[k])
    THEN revert_intrusive_set_range([dst EXCEPT ![k] = NoEntry],
                                    [src EXCEPT ![k] = dst[k]], k + 1, end)
    ELSE revert_entry(dst, src, k, end, deletable_row_revert(dst[k], src[k]))

\* the column whose merge throws while key k is merged, NumCols for none
failing_column(f, k) == IF f.stage = "rows" /\ f.key = k THEN f.col ELSE NumCols

\* apply_reversibly_intrusive_set from key k on: empty source entries are
\* erased, a key missing in dst is moved there and a placeholder is left
\* in src (its allocation throws at key f.key), a key present in both is
\* merged (the merge throws at column f.col of key f.key); the catch block
\* reverts the entries of the keys before k
RECURSIVE ApplyEntries(_, _, _, _)
apply_entry(dst, src, k, f, m) ==
    IF m.ok
    THEN ApplyEntries([dst EXCEPT ![k] = m.dst], [src EXCEPT ![k] = m.src], k + 1, f)
    ELSE Thrown(revert_intrusive_set_range([dst EXCEPT ![k] = m.dst],
                                           [src EXCEPT ![k] = m.src], 0, k))

ApplyEntries(dst, src, k, f) ==
    IF k > PMaxKey THEN [ok |-> TRUE, dst |-> dst, src |-> src]
    ELSE IF ~src[k].exists THEN ApplyEntries(dst, src, k + 1, f)
    ELSE IF deletable_row_empty(src[k])
    THEN ApplyEntries(dst, [src EXCEPT ![k] = NoEntry], k + 1, f)
    ELSE IF ~dst[k].exists
    THEN IF f.stage = "rows" /\ f.key = k
         THEN Thrown(revert_intrusive_set_range(dst, src, 0, k))
         ELSE ApplyEntries([dst EXCEPT ![k] = src[k]],
                           [src EXCEPT ![k] = EmptyEntry], k + 1, f)
    ELSE apply_entry(dst, src, k, f,
             deletable_row_apply_reversibly(dst[k], src[k], failing_column(f, k)))

\* apply_reversibly_intrusive_set(dst, src, apply, revert)
apply_reversibly_intrusive_set(dst, src, f) == ApplyEntries(dst, src, 0, f)

\* ------------------------------------------------------------------------
\* mutation_partition: apply, equal and the mutators
\* ------------------------------------------------------------------------
\* mutation_partition: _tombstone, _static_row, _row_tombstones, _rows
Partition(t, st, rts, rows) ==
    [tombstone |-> t, static_row |-> st, row_tombstones |-> rts, rows |-> rows]
EmptyPartition == Partition(EmptyTombstone, EmptyRow, <<>>, NoRows)

\* merge of the range tombstone lists: every range of src is added to dst
RECURSIVE range_tombstones_apply(_, _, _)
range_tombstones_apply(dst, src, i) ==
    IF i > Len(src) THEN dst
    ELSE range_tombstones_apply(add(dst, src[i].start, src[i].stop, src[i].tomb),
                                src, i + 1)

\* an apply() that merges the partition tombstone before the rows
apply_commit_tombstone_first(dst, p, st, rows) ==
    IF ~rows.ok
    THEN [ok |-> FALSE,
          dst |-> [dst EXCEPT !.rows = rows.dst,
                              !.static_row = row_revert(st.dst, st.src).dst,
                              !.tombstone = tombstone_apply(@, p.tombstone)]]
    ELSE [ok |-> TRUE,
          dst |-> Partition(tombstone_apply(dst.tombstone, p.tombstone), st.dst,
                            range_tombstones_apply(dst.row_tombstones,
                                                   p.row_tombstones, 1),
                            rows.dst)]

\* apply() after the rows: a throw reverts the static row and the range
\* tombstones, otherwise the partition tombstone is merged and the
\* reverters are cancelled
apply_commit(dst, p, st, rows) ==
    IF ~rows.ok
    THEN [ok |-> FALSE,
          dst |-> [dst EXCEPT !.rows = rows.dst,
                              !.static_row = row_revert(st.dst, st.src).dst]]
    ELSE [ok |-> TRUE,
          dst |-> Partition(tombstone_apply(dst.tombstone, p.tombstone), st.dst,
                            range_tombstones_apply(dst.row_tombstones,
                                                   p.row_tombstones, 1),
                            rows.dst)]

\* apply() after the static row: a throw reverts the range tombstones,
\* otherwise the rows are merged
apply_rows(dst, p, f, st) ==
    IF ~st.ok
    THEN [ok |-> FALSE, dst |-> [dst EXCEPT !.static_row = st.dst]]
    ELSE apply_commit(dst, p, st, apply_reversibly_intrusive_set(dst.rows, p.rows, f))

\* mutation_partition::apply(s, mutation_partition&& p) with the failure
\* point f: range tombstones, static row, rows, and the partition tombstone
\* last; a throw runs the reverters of the stages already done
mutation_partition_apply(dst, p, f) ==
    IF f.stage = "rt" /\ p.row_tombstones # <<>>
    THEN [ok |-> FALSE, dst |-> dst]
    ELSE apply_rows(dst, p, f,
             row_apply_reversibly(dst.static_row, p.static_row,
                 IF f.stage = "static" THEN f.col ELSE NumCols))

\* apply() without a failure: the merged partition
merge(dst, p) == mutation_partition_apply(dst, p, NoFailure).dst

\* the failure points of dst.apply(s, p): the merge of a non-empty range
\* tombstone list, the merge of a static cell, the allocation of the
\* placeholder for a row dst lacks, the merge of a cell of a row dst has
Failures(dst, p) ==
    {NoFailure}
        \cup {Failure("rt", 0, 0) : x \in {1} \cap DOMAIN p.row_tombstones}
        \cup {Failure("static", 0, c) : c \in present_columns(p.static_row)}
        \cup UNION {{Failure("rows", k, c) :
                        c \in IF dst.rows[k].exists
                              THEN present_columns(p.rows[k].cells)
                              ELSE {0}} :
                    k \in {j \in PKeys : /\ p.rows[j].exists
                                          /\ ~deletable_row_empty(p.rows[j])}}

\* mutation_partition::equal: tombstone, rows entry by entry, range
\* tombstones entry by entry, static row
mutation_partition_equal(a, b) ==
    /\ a.tombstone = b.tombstone
    /\ \A k \in PKeys : /\ a.rows[k].exists = b.rows[k].exists
                        /\ a.rows[k].exists =>
                              deletable_row_equal(a.rows[k], b.rows[k])
    /\ a.row_tombstones = b.row_tombstones
    /\ row_equal(a.static_row, b.static_row)

\* mutation_partition::clustered_row(key): the entry, created when missing
clustered_row(p, k) == IF p.rows[k].exists THEN p.rows[k] ELSE EmptyEntry

\* the range tombstones written to partitions
PRanges == {RT(s, e, t) : s \in PKeys, e \in PKeys, t \in PTombs}

\* one call of a mutator on partition p:
\*   apply(tombstone), apply_row_tombstone(rt), clustered_row(key),
\*   apply_delete(key, t), clustered_row(key).apply(marker),
\*   clustered_row(key).cells().apply(column, cell),
\*   static_row().apply(column, cell)
Mutations(p) ==
    {[p EXCEPT !.tombstone = tombstone_apply(@, t)] : t \in PTombs}
        \cup {[p EXCEPT !.row_tombstones = add(@, r.start, r.stop, r.tomb)] :
                 r \in {x \in PRanges : x.start <= x.stop}}
        \cup {[p EXCEPT !.rows[k] = clustered_row(p, k)] : k \in PKeys}
        \cup {[p EXCEPT !.rows[k] =
                   [clustered_row(p, k) EXCEPT !.deleted_at = tombstone_apply(@, t)]] :
                 k \in PKeys, t \in PTombs}
        \cup {[p EXCEPT !.rows[k] =
                   [clustered_row(p, k) EXCEPT !.marker = marker_apply(@, m)]] :
                 k \in PKeys, m \in Markers}
        \cup {[p EXCEPT !.rows[k] =
                   [clustered_row(p, k) EXCEPT
                       !.cells = row_apply_value(@, c, LiveCell(ts))]] :
                 k \in PKeys, c \in Columns, ts \in Timestamps}
        \cup {[p EXCEPT !.static_row = row_apply_value(@, c, LiveCell(ts))] :
                 c \in Columns, ts \in Timestamps}

InitPartition ==
    /\ CallIdle
    /\ rtl = <<>>
    /\ hist = <<>>
    /\ ViewIdle
    /\ target = EmptyPartition
    /\ other = EmptyPartition
    /\ third = EmptyPartition
    /\ snapshot = EmptyPartition
    /\ mphase = "build"
    /\ writes = 0
    /\ GenIdle
    /\ RegistryIdle
    /\ MergerIdle

\* a mutator call on the target partition
WriteTarget ==
    /\ mphase = "build"
    /\ writes < MaxWrites
    /\ target' \in Mutations(target)
    /\ writes' = writes + 1
    /\ UNCHANGED <<other, third, snapshot, mphase, rtlVars, callVars, regVars, mergerVars, viewVars, genVars>>

\* a mutator call on the partition that will be applied
WriteOther ==
    /\ mphase = "build"
    /\ writes < MaxWrites
    /\ other' \in Mutations(other)
    /\ writes' = writes + 1
    /\ UNCHANGED <<target, third, snapshot, mphase, rtlVars, callVars, regVars, mergerVars, viewVars, genVars>>

\* a mutator call on the third partition
WriteThird ==
    /\ mphase = "build"
    /\ writes < MaxWrites
    /\ third' \in Mutations(third)
    /\ writes' = writes + 1
    /\ UNCHANGED <<target, other, snapshot, mphase, rtlVars, callVars, regVars, mergerVars, viewVars, genVars>>

\* how apply() left: the target, and whether the call returned or threw
Returned(r) ==
    /\ target' = r.dst
    /\ mphase' = IF r.ok THEN "applied" ELSE "failed"

\* target.apply(s, other): the copy of other is applied; the call returns
\* or throws at one of the failure points
Apply ==
    /\ mphase = "build"
    /\ \E f \in Failures(target, other) :
          Returned(mutation_partition_apply(target, other, f))
    /\ snapshot' = target
    /\ UNCHANGED <<other, third, writes, rtlVars, callVars, regVars, mergerVars, viewVars, genVars>>

\* target.apply(s, target): a copy of the partition is applied to itself
ApplySelf ==
    /\ mphase = "build"
    /\ target' = merge(target, target)
    /\ snapshot' = target
    /\ mphase' = "self"
    /\ UNCHANGED <<other, third, writes, rtlVars, callVars, regVars, mergerVars, viewVars, genVars>>

\* both orders of the merge of two partitions, each on a copy
ApplyBoth ==
    /\ mphase = "build"
    /\ target' = merge(target, other)
    /\ other' = merge(other, target)
    /\ mphase' = "commuted"
    /\ UNCHANGED <<third, snapshot, writes, rtlVars, callVars, regVars, mergerVars, viewVars, genVars>>

\* the three groupings of the merge of three partitions, each on copies
ApplyChain ==
    /\ mphase = "build"
    /\ target' = merge(merge(target, other), third)
    /\ other' = merge(target, merge(other, third))
    /\ third' = merge(other, merge(target, third))
    /\ mphase' = "chained"
    /\ UNCHANGED <<snapshot, writes, rtlVars, callVars, regVars, mergerVars, viewVars, genVars>>

NextPartition == WriteTarget \/ WriteOther \/ Apply \/ ApplySelf \/ ApplyBoth
SpecPartition == InitPartition /\ [][NextPartition]_vars

NextChain == WriteTarget \/ WriteOther \/ WriteThird \/ ApplyChain
SpecChain == InitPartition /\ [][NextChain]_vars

\* ------------------------------------------------------------------------
\* C1: after any sequence of add calls with start <= stop, every interval
\* has start <= stop, adjacent intervals satisfy e_i <= s_{i+1}, and no two
\* adjacent intervals are both singletons [x,x] with the same x.
\* ------------------------------------------------------------------------
ValidList(l) ==
    /\ \A i \in 1..Len(l) : l[i].start <= l[i].stop
    /\ \A i \in 1..(Len(l) - 1) :
          /\ l[i].stop <= l[i + 1].start
          /\ ~(/\ l[i].start = l[i].stop
               /\ l[i + 1].start = l[i + 1].stop
               /\ l[i].start = l[i + 1].start)

C1_ListInvariant == ValidList(rtl)

\* two recorded adds overlap in more than an endpoint
Overlapping(a, b) == a.start < b.stop /\ b.start < a.stop

C1_Witness ==
    /\ Len(hist) = MaxAdds
    /\ Len(rtl) >= 3
    /\ \E i, j \in 1..Len(hist) : i < j /\ Overlapping(hist[i], hist[j])

\* ------------------------------------------------------------------------
\* C2: for every key, search_tombstone_covering returns a tombstone whose
\* timestamp is the maximum timestamp among the added ranges containing the
\* key, and the empty tombstone when no added range contains it.
\* ------------------------------------------------------------------------
ProbeKeys == (0 - 1)..(MaxKey + 1)

Containing(h, k) == {i \in 1..Len(h) : h[i].start <= k /\ k <= h[i].stop}

MaxTimestamp(h, S) ==
    CHOOSE t \in {h[i].tomb.timestamp : i \in S} :
        \A i \in S : h[i].tomb.timestamp <= t

C2_SearchCovering ==
    \A k \in ProbeKeys :
        LET S == Containing(hist, k)
            t == search_tombstone_covering(rtl, k)
        IN IF S = {}
           THEN t = EmptyTombstone
           ELSE /\ t.timestamp = MaxTimestamp(hist, S)
                /\ \E i \in S : hist[i].tomb = t

\* a key on a boundary shared by two intervals, the later one winning
C2_Witness ==
    \E k \in Keys :
        LET it == lower_bound(rtl, k) IN
        /\ it < Len(rtl)
        /\ rtl[it].stop = k
        /\ rtl[it + 1].start = k
        /\ rtl[it + 1].tomb.timestamp > rtl[it].tomb.timestamp
        /\ search_tombstone_covering(rtl, k) = rtl[it + 1].tomb

\* ------------------------------------------------------------------------
\* C7: adding [4,10]@3, [1,7]@2, [8,13]@4, [0,15]@1 to an empty list yields
\* [0,1]@1, [1,4]@2, [4,8]@3, [8,13]@4, [13,15]@1; and every add keeps, on
\* each stretch of keys the new range shares with an existing interval, the
\* tombstone with the strictly greater timestamp, puts the new tombstone on
\* the stretches of the new range no interval covered, and changes nothing
\* outside the new range.
\* ------------------------------------------------------------------------
Scenario == <<rt(4, 10, 3), rt(1, 7, 2), rt(8, 13, 4), rt(0, 15, 1)>>
ScenarioResult ==
    <<rt(0, 1, 1), rt(1, 4, 2), rt(4, 8, 3), rt(8, 13, 4), rt(13, 15, 1)>>

\* the stretches (k, k+1) of the key space the test ranges live in
Stretches == 0..19

\* tombstone of the interval covering the stretch (k, k+1), if any
StretchTomb(l, k) ==
    LET S == {i \in 1..Len(l) : l[i].start <= k /\ k + 1 <= l[i].stop} IN
    IF S = {} THEN EmptyTombstone ELSE l[CHOOSE i \in S : TRUE].tomb

AddKeepsGreater(l, r, l2) ==
    \A k \in Stretches :
        LET old == StretchTomb(l, k) IN
        StretchTomb(l2, k) =
            IF r.start <= k /\ k + 1 <= r.stop /\ r.tomb.timestamp > old.timestamp
            THEN r.tomb
            ELSE old

C7_OverlapPrecedence ==
    [][/\ AddKeepsGreater(rtl, hist'[Len(hist')], rtl')
       /\ (hist' = Scenario => rtl' = ScenarioResult)]_vars

C7_Witness == hist = Scenario /\ Len(rtl) = 5

\* ------------------------------------------------------------------------
\* C8: non-singleton ranges that pairwise share at most an endpoint, added
\* in any order, yield exactly those ranges, unchanged, sorted by start.
\* ------------------------------------------------------------------------
PairwiseDisjoint(h) ==
    /\ \A i \in 1..Len(h) : h[i].start < h[i].stop
    /\ \A i, j \in 1..Len(h) : i # j => ~Overlapping(h[i], h[j])

C8_DisjointPreserved ==
    PairwiseDisjoint(hist) =>
        /\ Len(rtl) = Len(hist)
        /\ {rtl[i] : i \in 1..Len(rtl)} = {hist[i] : i \in 1..Len(hist)}
        /\ \A i \in 1..(Len(rtl) - 1) : rtl[i].start < rtl[i + 1].start

\* three such ranges added out of order
C8_Witness ==
    /\ Len(hist) = 3
    /\ PairwiseDisjoint(hist)
    /\ hist[2].start < hist[1].start
    /\ hist[1].stop = hist[3].start

\* ------------------------------------------------------------------------
\* C9: an update row and a real (non-synthetic) existing row are passed
\* together to generate_update only when their clustering positions are
\* equal; an update row is never paired with an existing row of another key.
\* ------------------------------------------------------------------------
C9_PairedOnlyWhenEqual ==
    \A i \in 1..Len(calls) :
        calls[i].real =>
            position(calls[i].update) = position(calls[i].existing[1])

\* ------------------------------------------------------------------------
\* C10: when both heads are engaged and the existing head strictly precedes
\* the update head, the step consumes only the existing head: the updates
\* stream and the update head are left alone, an existing range tombstone
\* only changes the existing-side tracker, and an existing row leads to a
\* generate_update call only if the update-side tracker holds a tombstone.
\* ------------------------------------------------------------------------
ExistingPrecedes ==
    /\ vpc = "loop"
    /\ upd_head # <<>>
    /\ ex_head # <<>>
    /\ position(ex_head[1]) < position(upd_head[1])

C10_ExistingOnlyConsumed ==
    [][ExistingPrecedes =>
          /\ upd_head' = upd_head
          /\ updates' = updates
          /\ upd_tracker' = upd_tracker
          /\ (is_range_tombstone(ex_head[1]) => calls' = calls)
          /\ (~tombstone_set(current_tombstone(upd_tracker)) => calls' = calls)]_vars

\* ------------------------------------------------------------------------
\* C3: if apply(schema, other) fails at any failure point, the target
\* compares equal, by mutation_partition::equal, to the snapshot taken
\* before the call.
\* ------------------------------------------------------------------------
C3_FailedApplyRestoresTarget ==
    mphase = "failed" => mutation_partition_equal(target, snapshot)

\* ------------------------------------------------------------------------
\* C4: merge is commutative: applying P2 to a copy of P1 yields a partition
\* equal, by mutation_partition::equal, to applying P1 to a copy of P2.
\* ------------------------------------------------------------------------
C4_MergeCommutes ==
    mphase = "commuted" => mutation_partition_equal(target, other)

\* ------------------------------------------------------------------------
\* C5: merge is associative: merge(merge(P1,P2),P3), merge(P1,merge(P2,P3))
\* and merge(P2,merge(P1,P3)) are equal by key/cell content.
\* ------------------------------------------------------------------------
\* the content of a key: the entry of the row set, a missing entry counting
\* as an empty one
content_row(p, k) == IF p.rows[k].exists THEN p.rows[k] ELSE EmptyEntry

\* equality by content: the partition tombstone, the static cells, and for
\* every key the covering range tombstone and the row's tombstone, marker
\* and cells; neither the fragmentation of the range tombstone list nor
\* empty row entries count
content_equal(a, b) ==
    /\ a.tombstone = b.tombstone
    /\ row_equal(a.static_row, b.static_row)
    /\ \A k \in PKeys :
          /\ search_tombstone_covering(a.row_tombstones, k)
                = search_tombstone_covering(b.row_tombstones, k)
          /\ deletable_row_equal(content_row(a, k), content_row(b, k))

C5_MergeAssociates ==
    mphase = "chained" => content_equal(target, other) /\ content_equal(target, third)

\* ------------------------------------------------------------------------
\* C6: merge is idempotent: applying a copy of P to P leaves P equal, by
\* mutation_partition::equal, to what it was before the call.
\* ------------------------------------------------------------------------
C6_MergeIdempotent ==
    mphase = "self" => mutation_partition_equal(target, snapshot)

C6_Witness ==
    /\ mphase = "self"
    /\ target.row_tombstones # <<>>
    /\ \E k \in PKeys : /\ target.rows[k].exists
                        /\ row_size(target.rows[k].cells) > 0
                        /\ ~is_missing(target.rows[k].marker)

\* ------------------------------------------------------------------------
\* C11: when the update head is a clustering row with no existing row at
\* its position (the existing head is strictly later, or the existings
\* stream is exhausted), the generate_update call made by the step receives
\* as existing nothing if the existing-side tracker holds no tombstone, and
\* otherwise a row with the update's key carrying only that tombstone; the
\* existings stream and the existing head are left alone.
\* ------------------------------------------------------------------------
NoExistingAtPosition ==
    /\ vpc = "loop"
    /\ upd_head # <<>>
    /\ ~is_range_tombstone(upd_head[1])
    /\ (ex_head = <<>> \/ position(upd_head[1]) < position(ex_head[1]))

\* the existing side as seen at the update's key
SyntheticExisting ==
    IF tombstone_set(current_tombstone(ex_tracker))
    THEN <<tombstone_row(upd_head[1].key, current_tombstone(ex_tracker))>>
    ELSE <<>>

C11_SyntheticExisting ==
    [][NoExistingAtPosition /\ Len(calls') > Len(calls) =>
          /\ calls'[Len(calls')].existing = SyntheticExisting
          /\ ex_head' = ex_head
          /\ existings' = existings]_vars

\* ------------------------------------------------------------------------
\* C12: build() does not reach stop while the updates stream still holds an
\* unconsumed clustering row: when the merge-join has stopped, neither the
\* update head nor the rest of the updates stream is a clustering row.
\* ------------------------------------------------------------------------
UnconsumedUpdateRow ==
    \/ upd_head # <<>> /\ ~is_range_tombstone(upd_head[1])
    \/ \E i \in 1..Len(updates) : ~is_range_tombstone(updates[i])

C12_NoStopBeforeRows == vpc = "done" => ~UnconsumedUpdateRow

\* ------------------------------------------------------------------------
\* C13: for finite streams whose fetches complete, build() eventually
\* completes: every on_results step either ends the repeat() loop (stop, or
\* an error) or consumes at least one head fragment, so the number of
\* fragments left strictly decreases and the loop is eventually left.
\* ------------------------------------------------------------------------
\* repeat() keeps calling on_results until it returns stop or fails, and
\* every fetch of the streams completes
SpecViewLive == InitView /\ [][NextView]_vars /\ WF_vars(NextView)

\* fragments not yet consumed: the heads and what the streams still hold
Remaining == Len(upd_head) + Len(updates) + Len(ex_head) + Len(existings)

Completed == vpc \in {"done", "failed", "aborted"}

Values == 0..MaxValue
Expiries == 1..MaxExpiry

Max(a, b) == IF a < b THEN b ELSE a

\* atomic_cell: write timestamp, liveness, ttl (no_ttl when the cell does
\* not expire), expiry and value
atomic_cell(ts, live, ttl, expiry, value) ==
    [timestamp |-> ts, live |-> live, ttl |-> ttl, expiry |-> expiry,
     value |-> value]
make_live(ts, value) == atomic_cell(ts, TRUE, no_ttl, 0, value)
make_live_ttl(ts, value, expiry) == atomic_cell(ts, TRUE, expiry, expiry, value)
make_dead(ts) == atomic_cell(ts, FALSE, no_ttl, 0, 0)

is_live_and_has_ttl(cell) == cell.live /\ cell.ttl # no_ttl

\* a cell stored in a row
Present(cell) == [present |-> TRUE, cell |-> cell]

\* clustering_row(key, tombstone, row_marker, row)
clustering_row(key, t, m, cells) ==
    [key |-> key, tomb |-> t, marker |-> m, cells |-> cells]

\* clustering_row::empty()
clustering_row_empty(r) == deletable_row_empty(Entry(r.tomb, r.marker, r.cells))

\* a view: the base regular column that is part of its primary key (<<>>
\* when there is none) and the base regular columns it includes
View(col, included) == [col |-> col, included |-> included]

\* PRIMARY KEY as in the base table, selecting column 0 only
view_plain == View(<<>>, {0})

\* PRIMARY KEY (column 0, base key), column 1 a regular column of the view
view_keyed == View(<<0>>, Columns)

Views == <<view_plain, view_keyed>>

\* a marker that keeps the ttl and expiry of the base row marker
marker_of_base(marker, cell) ==
    Marker(Max(marker.timestamp, cell.timestamp), marker.ttl, marker.expiry)

\* row_marker(timestamp, ttl, expiry) or row_marker(timestamp) from the
\* cell of the view key column
marker_of_cell(marker, cell) ==
    IF is_live_and_has_ttl(cell)
    THEN Marker(Max(marker.timestamp, cell.timestamp), cell.ttl, cell.expiry)
    ELSE LiveMarker(Max(marker.timestamp, cell.timestamp))

\* for_each_cell(maybe_update_expiry_and_ttl) over the columns from c on; m
\* carries the running ttl and expiry
RECURSIVE maybe_update_expiry_and_ttl(_, _, _)
maybe_update_expiry_and_ttl(cells, c, m) ==
    IF c = NumCols
    THEN m
    ELSE IF /\ cells[c].present
            /\ is_live_and_has_ttl(cells[c].cell)
            /\ cells[c].cell.expiry > m.expiry
    THEN maybe_update_expiry_and_ttl(
             cells, c + 1,
             Marker(m.timestamp, cells[c].cell.ttl, cells[c].cell.expiry))
    ELSE maybe_update_expiry_and_ttl(cells, c + 1, m)

\* view_updates::compute_row_marker; the callers pass a row that holds the
\* cell of the view key column
compute_row_marker(view, base_row) ==
    IF view.col # <<>>
    THEN marker_of_cell(base_row.marker, base_row.cells[view.col[1]].cell)
    ELSE IF ~is_expiring(base_row.marker)
    THEN base_row.marker
    ELSE maybe_update_expiry_and_ttl(base_row.cells, 0, base_row.marker)

\* ------------------------------------------------------------------------
\* view_updates: the _updates map and the entry operations
\* ------------------------------------------------------------------------
\* _updates.key(): the key of the base partition under build
base_key == 0

\* gc_clock::now() taken when the builder is made
now == 1

\* _updates: the (key, partition) pairs of the map, in insertion order
has_partition(vu, key) == \E i \in 1..Len(vu) : vu[i].key = key
partition_index(vu, key) == CHOOSE i \in 1..Len(vu) : vu[i].key = key

\* a map that takes a second entry for a key it holds
partition_for_emplace_always(vu, key) ==
    Append(vu, [key |-> key, rows |-> NoRows])

\* view_updates::partition_for
partition_for(vu, key) ==
    IF has_partition(vu, key)
    THEN vu
    ELSE Append(vu, [key |-> key, rows |-> NoRows])

\* the key of the view row of a base row: the view partition key is the
\* value of the view key column, or the base partition key; the view
\* clustering key holds the base clustering key
ViewKey(view, row) ==
    [pk |-> IF view.col # <<>>
            THEN row.cells[view.col[1]].cell.value
            ELSE base_key,
     ck |-> row.key]

\* partition.clustered_row(view_schema, ckey): the row, made if missing
view_row(vu, k) ==
    IF vu[partition_index(vu, k.pk)].rows[k.ck].exists
    THEN vu[partition_index(vu, k.pk)].rows[k.ck]
    ELSE EmptyEntry

put_view_row(vu, k, e) ==
    [vu EXCEPT ![partition_index(vu, k.pk)].rows[k.ck] = e]

\* view_column(base, view, id) is not null
in_view(view, id) == id \in view.included

\* view_col->is_primary_key()
is_primary_key(view, id) == view.col = <<id>>

\* view_col->id: regular columns of the view are numbered in base order
view_column_id(view, id) ==
    Cardinality({x \in view.included : x < id /\ ~is_primary_key(view, x)})

\* row::append_cell on vector storage: resize(id), then emplace_back
append_cell(cells, id, value) ==
    [x \in Columns |-> IF x < id THEN cells[x]
                       ELSE IF x = id THEN Present(value)
                       ELSE NoCell]

\* add_cells_to_view, for the base columns from c on
RECURSIVE add_cells_to_view(_, _, _, _)
add_cells_to_view(view, base_cells, view_cells, c) ==
    IF c = NumCols
    THEN view_cells
    ELSE IF base_cells[c].present /\ in_view(view, c) /\ ~is_primary_key(view, c)
    THEN add_cells_to_view(
             view, base_cells,
             append_cell(view_cells, view_column_id(view, c), base_cells[c].cell),
             c + 1)
    ELSE add_cells_to_view(view, base_cells, view_cells, c + 1)

\* r.apply(marker); r.apply(tomb); add_cells_to_view(cells, r.cells())
applied_row(r, view, m, t, cells) ==
    Entry(tombstone_apply(r.deleted_at, t),
          marker_apply(r.marker, m),
          add_cells_to_view(view, cells, r.cells, 0))

apply_to_view_row(vu, k, view, m, t, cells) ==
    put_view_row(vu, k, applied_row(view_row(vu, k), view, m, t, cells))

\* view_updates::create_entry
create_entry(vu, view, update, f) ==
    IF ~f.update
    THEN vu
    ELSE apply_to_view_row(partition_for(vu, ViewKey(view, update).pk),
                           ViewKey(view, update), view,
                           compute_row_marker(view, update), update.tomb,
                           update.cells)

\* set_max_ts over the cells of the columns the view has, from c on
RECURSIVE set_max_ts(_, _, _, _)
set_max_ts(view, cells, c, ts) ==
    IF c = NumCols
    THEN ts
    ELSE IF cells[c].present /\ in_view(view, c)
    THEN set_max_ts(view, cells, c + 1, Max(ts, cells[c].cell.timestamp))
    ELSE set_max_ts(view, cells, c + 1, ts)

\* get_view_row(base_key, existing).apply(tombstone(ts, now))
delete_view_row(vu, k, ts) ==
    put_view_row(vu, k,
                 [view_row(vu, k) EXCEPT
                     !.deleted_at = tombstone_apply(@, Tomb(ts, now))])

\* view_updates::do_delete_old_entry
do_delete_old_entry(vu, view, existing) ==
    delete_view_row(partition_for(vu, ViewKey(view, existing).pk),
                    ViewKey(view, existing),
                    set_max_ts(view, existing.cells, 0, existing.marker.timestamp))

\* view_updates::delete_old_entry
delete_old_entry(vu, view, existing, f) ==
    IF f.existing THEN do_delete_old_entry(vu, view, existing) ELSE vu

\* row::difference for atomic columns
row_difference(a, b) ==
    [c \in Columns |->
        IF /\ a[c].present
           /\ (~b[c].present
                 \/ compare_atomic_cell_for_merge(a[c].cell, b[c].cell) > 0)
        THEN a[c]
        ELSE NoCell]

\* an update_entry that skips both filter tests
update_entry_unfiltered(vu, view, update, existing, f) ==
    apply_to_view_row(partition_for(vu, ViewKey(view, update).pk),
                      ViewKey(view, update), view,
                      compute_row_marker(view, update), update.tomb,
                      row_difference(update.cells, existing.cells))

\* view_updates::update_entry
update_entry(vu, view, update, existing, f) ==
    IF ~f.existing
    THEN create_entry(vu, view, update, f)
    ELSE IF ~f.update
    THEN do_delete_old_entry(vu, view, existing)
    ELSE apply_to_view_row(partition_for(vu, ViewKey(view, update).pk),
                           ViewKey(view, update), view,
                           compute_row_marker(view, update), update.tomb,
                           row_difference(update.cells, existing.cells))

\* replace_entry taken for the in-place update
replace_entry_in_place(vu, view, update, existing, f) ==
    update_entry(vu, view, update, existing, f)

\* view_updates::replace_entry
replace_entry(vu, view, update, existing, f) ==
    delete_old_entry(create_entry(vu, view, update, f), view, existing, f)

\* the view rows an entry operation asks get_view_row for
CreateTouches(view, update, f) ==
    IF f.update THEN {ViewKey(view, update)} ELSE {}
DeleteTouches(view, existing, f) ==
    IF f.existing THEN {ViewKey(view, existing)} ELSE {}
UpdateTouches(view, update, existing, f) ==
    IF ~f.existing
    THEN CreateTouches(view, update, f)
    ELSE IF ~f.update
    THEN {ViewKey(view, existing)}
    ELSE {ViewKey(view, update)}

\* what a generate_update call leaves: the map, the entry operations it
\* ran and the view rows it asked for
Generated(vu, ops, rows) == [vu |-> vu, ops |-> ops, rows |-> rows]

\* a decision that takes update_entry for every present existing row
generate_for_present_existing(vu, view, update, existing, f) ==
    IF existing # <<>>
    THEN IF clustering_row_empty(update)
         THEN Generated(delete_old_entry(vu, view, existing[1], f),
                        <<"delete_old_entry">>,
                        DeleteTouches(view, existing[1], f))
         ELSE Generated(update_entry(vu, view, update, existing[1], f),
                        <<"update_entry">>,
                        UpdateTouches(view, update, existing[1], f))
    ELSE IF ~clustering_row_empty(update)
    THEN Generated(create_entry(vu, view, update, f),
                   <<"create_entry">>,
                   CreateTouches(view, update, f))
    ELSE Generated(vu, <<>>, {})

\* view_updates::generate_update, lines 375-388: no base regular column in
\* the view's primary key
generate_without_col(vu, view, update, existing, f) ==
    IF existing # <<>> /\ ~clustering_row_empty(existing[1])
    THEN IF clustering_row_empty(update)
         THEN Generated(delete_old_entry(vu, view, existing[1], f),
                        <<"delete_old_entry">>,
                        DeleteTouches(view, existing[1], f))
         ELSE Generated(update_entry(vu, view, update, existing[1], f),
                        <<"update_entry">>,
                        UpdateTouches(view, update, existing[1], f))
    ELSE IF ~clustering_row_empty(update)
    THEN Generated(create_entry(vu, view, update, f),
                   <<"create_entry">>,
                   CreateTouches(view, update, f))
    ELSE Generated(vu, <<>>, {})

\* a decision that looks at the cell after the update only
generate_from_after_only(vu, view, update, existing, f, col) ==
    IF update.cells[col].present
    THEN Generated(create_entry(vu, view, update, f),
                   <<"create_entry">>,
                   CreateTouches(view, update, f))
    ELSE Generated(vu, <<>>, {})

\* view_updates::generate_update, lines 390-413: the before and after cells
\* of the view key column col
generate_with_col(vu, view, update, existing, f, col) ==
    IF existing # <<>> /\ existing[1].cells[col].present
    THEN IF update.cells[col].present
         THEN IF compare_atomic_cell_for_merge(existing[1].cells[col].cell,
                                               update.cells[col].cell) = 0
              THEN Generated(replace_entry(vu, view, update, existing[1], f),
                             <<"create_entry", "delete_old_entry">>,
                             CreateTouches(view, update, f)
                                \cup DeleteTouches(view, existing[1], f))
              ELSE Generated(update_entry(vu, view, update, existing[1], f),
                             <<"update_entry">>,
                             UpdateTouches(view, update, existing[1], f))
         ELSE Generated(delete_old_entry(vu, view, existing[1], f),
                        <<"delete_old_entry">>,
                        DeleteTouches(view, existing[1], f))
    ELSE IF update.cells[col].present
    THEN Generated(create_entry(vu, view, update, f),
                   <<"create_entry">>,
                   CreateTouches(view, update, f))
    ELSE Generated(vu, <<>>, {})

\* view_updates::generate_update; clustering keys of the model are full
view_generate_update(vu, view, update, existing, f) ==
    IF view.col = <<>>
    THEN generate_without_col(vu, view, update, existing, f)
    ELSE generate_with_col(vu, view, update, existing, f, view.col[1])

\* ------------------------------------------------------------------------
\* State machines of view_updates: one generate_update call on one view,
\* one compute_row_marker call per view, and a build pass over all views
\* ------------------------------------------------------------------------
\* matches_view_filter(update) and matches_view_filter(existing)
Filters == [update : BOOLEAN, existing : BOOLEAN]

NoUpdates == [i \in 1..Len(Views) |-> <<>>]

\* rows handed to generate_update: live cells without TTL, which
\* compact_and_expire leaves alone
GenCells(values) ==
    {NoCell} \cup {Present(make_live(ts, v)) : ts \in Timestamps, v \in values}

GenRows(k) ==
    {clustering_row(k, t, m, [c \in Columns |-> IF c = 0 THEN c0 ELSE c1]) :
        t \in {EmptyTombstone, Tomb(1, 0)},
        m \in {MissingMarker, LiveMarker(1)},
        c0 \in GenCells(Values),
        c1 \in GenCells({0})}

InitGenerate ==
    /\ CallIdle
    /\ rtl = <<>>
    /\ hist = <<>>
    /\ ViewIdle
    /\ PartitionIdle
    /\ gen_view \in 1..Len(Views)
    /\ \E k \in PKeys :
          /\ gen_update \in {<<r>> : r \in GenRows(k)}
          /\ gen_existing \in {<<>>} \cup {<<r>> : r \in GenRows(k)}
    /\ gen_filter \in Filters
    /\ view_updates = NoUpdates
    /\ gen_ops = <<>>
    /\ touched = {}
    /\ markers = <<>>
    /\ mutations = <<>>
    /\ gen_calls = 0
    /\ gphase = "input"
    /\ RegistryIdle
    /\ MergerIdle

\* the view rows of view i
TouchedOf(i, rows) == {[view |-> i, pk |-> k.pk, ck |-> k.ck] : k \in rows}

\* the state a generate_update call on view i leaves
GenerateReturns(i, g) ==
    /\ view_updates' = [view_updates EXCEPT ![i] = g.vu]
    /\ gen_ops' = g.ops
    /\ touched' = touched \cup TouchedOf(i, g.rows)

\* view_updates::generate_update(base_key, update, existing, now)
GenerateUpdate ==
    /\ gphase = "input"
    /\ GenerateReturns(gen_view,
                       view_generate_update(view_updates[gen_view], Views[gen_view],
                                            gen_update[1], gen_existing, gen_filter))
    /\ gen_calls' = gen_calls + 1
    /\ gphase' = "generated"
    /\ UNCHANGED <<gen_view, gen_update, gen_existing, gen_filter, markers,
                   mutations, rtlVars, callVars, regVars, mergerVars, viewVars, mpVars>>

NextGenerate == GenerateUpdate
SpecViewUpdates == InitGenerate /\ [][NextGenerate]_vars

\* base rows handed to compute_row_marker: markers and cells that are
\* live, expiring or dead
MarkerCells ==
    {NoCell}
        \cup {Present(make_live(ts, 0)) : ts \in Timestamps}
        \cup {Present(make_live_ttl(ts, 0, e)) : ts \in Timestamps, e \in Expiries}
        \cup {Present(make_dead(ts)) : ts \in Timestamps}

BaseMarkers ==
    {MissingMarker}
        \cup {LiveMarker(ts) : ts \in Timestamps}
        \cup {Marker(ts, e, e) : ts \in Timestamps, e \in Expiries}
        \cup {DeadMarker(ts) : ts \in Timestamps}

MarkerRows ==
    {clustering_row(0, EmptyTombstone, m, [c \in Columns |-> IF c = 0 THEN c0 ELSE c1]) :
        m \in BaseMarkers, c0 \in MarkerCells, c1 \in MarkerCells}

InitMarker ==
    /\ CallIdle
    /\ rtl = <<>>
    /\ hist = <<>>
    /\ ViewIdle
    /\ PartitionIdle
    /\ gen_view = 0
    /\ gen_update \in {<<r>> : r \in MarkerRows}
    /\ gen_existing = <<>>
    /\ gen_filter = <<>>
    /\ view_updates = <<>>
    /\ gen_ops = <<>>
    /\ touched = {}
    /\ markers = <<>>
    /\ mutations = <<>>
    /\ gen_calls = 0
    /\ gphase = "marker"
    /\ RegistryIdle
    /\ MergerIdle

\* cell_at(col->id) throws out_of_range when the row lacks the cell
cell_at_throws(view, base_row) ==
    view.col # <<>> /\ ~base_row.cells[view.col[1]].present

\* compute_row_marker(base_row) of every view; <<>> stands for the throw
ComputeRowMarker ==
    /\ gphase = "marker"
    /\ markers' = [i \in 1..Len(Views) |->
                      IF cell_at_throws(Views[i], gen_update[1])
                      THEN <<>>
                      ELSE <<compute_row_marker(Views[i], gen_update[1])>>]
    /\ gphase' = "computed"
    /\ UNCHANGED <<gen_view, gen_update, gen_existing, gen_filter, view_updates,
                   gen_ops, touched, mutations, gen_calls, rtlVars, callVars, regVars, mergerVars, viewVars,
                   mpVars>>

NextMarker == ComputeRowMarker
SpecMarker == InitMarker /\ [][NextMarker]_vars

\* ------------------------------------------------------------------------
\* C14: for a view with no base non-PK column in its primary key,
\* generate_update runs delete_old_entry when the existing row is present
\* and non-empty and the update is empty, update_entry when the update is
\* non-empty and the existing row is present and non-empty, create_entry
\* when the update is non-empty and there is no existing row or an empty
\* one, and nothing when the update is empty and there is no non-empty
\* existing row.
\* ------------------------------------------------------------------------
\* a pre- or post-image without row tombstone, row marker and cells
EmptyImage(r) ==
    /\ r.tomb.timestamp = 0
    /\ r.marker.timestamp = 0
    /\ \A c \in Columns : ~r.cells[c].present

\* a generate_update call on the view without view key column has returned
PlainGenerated == gphase = "generated" /\ Views[gen_view].col = <<>>

NonEmptyExisting == gen_existing # <<>> /\ ~EmptyImage(gen_existing[1])

DeletesWhenUpdateEmpty ==
    NonEmptyExisting /\ EmptyImage(gen_update[1])
        => gen_ops = <<"delete_old_entry">>

NothingWhenAllEmpty ==
    ~NonEmptyExisting /\ EmptyImage(gen_update[1]) => gen_ops = <<>>

C14_PlainViewDecision ==
    PlainGenerated =>
        /\ DeletesWhenUpdateEmpty
        /\ (NonEmptyExisting /\ ~EmptyImage(gen_update[1])
              => gen_ops = <<"update_entry">>)
        /\ (~NonEmptyExisting /\ ~EmptyImage(gen_update[1])
              => gen_ops = <<"create_entry">>)
        /\ NothingWhenAllEmpty

\* the statement with update_entry for every present existing row and
\* create_entry only when there is no existing row
C14_PresentExistingUpdates ==
    PlainGenerated =>
        /\ DeletesWhenUpdateEmpty
        /\ (gen_existing # <<>> /\ ~EmptyImage(gen_update[1])
              => gen_ops = <<"update_entry">>)
        /\ (gen_existing = <<>> /\ ~EmptyImage(gen_update[1])
              => gen_ops = <<"create_entry">>)
        /\ NothingWhenAllEmpty

\* a non-empty update met a present but empty existing row
C14_Witness ==
    /\ PlainGenerated
    /\ gen_existing # <<>>
    /\ EmptyImage(gen_existing[1])
    /\ ~EmptyImage(gen_update[1])
    /\ gen_ops = <<"create_entry">>
    /\ view_updates[gen_view] # <<>>

\* ------------------------------------------------------------------------
\* C15: for a view whose primary key holds a base non-PK column c,
\* generate_update decides from the presence of c's cell before (existing)
\* and after (update): absent in both, nothing is run and the view's
\* updates stay as they were; present before and absent after,
\* delete_old_entry; absent before (or no existing row) and present after,
\* create_entry; present in both with cells that differ in merge order,
\* update_entry.
\* ------------------------------------------------------------------------
\* a generate_update call on the view with a view key column has returned
KeyedGenerated == gphase = "generated" /\ Views[gen_view].col # <<>>

KeyColumn == Views[gen_view].col[1]

BeforePresent ==
    gen_existing # <<>> /\ gen_existing[1].cells[KeyColumn].present

AfterPresent == gen_update[1].cells[KeyColumn].present

\* the two live cells are ordered by the merge: their timestamps differ
DifferInMergeOrder ==
    gen_existing[1].cells[KeyColumn].cell.timestamp
        # gen_update[1].cells[KeyColumn].cell.timestamp

EmittedRow(row) ==
    IF has_partition(view_updates[gen_view], ViewKey(Views[gen_view], row).pk)
    THEN view_updates[gen_view][
             partition_index(view_updates[gen_view],
                             ViewKey(Views[gen_view], row).pk)
         ].rows[ViewKey(Views[gen_view], row).ck]
    ELSE NoEntry

\* the view row carries a row marker at least as new as the key cell, and
\* the update's cell of the view's regular column
CreationEmitted(e, update) ==
    /\ e.exists
    /\ ~is_missing(e.marker)
    /\ e.marker.timestamp >= update.cells[KeyColumn].cell.timestamp
    /\ (update.cells[1].present => e.cells[0] = update.cells[1])

\* the view row carries a row tombstone that covers the existing row
DeletionEmitted(e, existing) ==
    /\ e.exists
    /\ tombstone_set(e.deleted_at)
    /\ e.deleted_at.timestamp >= existing.cells[KeyColumn].cell.timestamp
    /\ e.deleted_at.timestamp >= existing.marker.timestamp

EqualKeyCells ==
    KeyedGenerated /\ BeforePresent /\ AfterPresent /\ ~DifferInMergeOrder

BaseMarker == gen_update[1].marker
KeyCellOf(i) == gen_update[1].cells[Views[i].col[1]].cell

\* compute_row_marker has returned for the view i with a view key column
KeyedComputed(i) ==
    /\ gphase = "computed"
    /\ Views[i].col # <<>>
    /\ gen_update[1].cells[Views[i].col[1]].present

MarkerFromKeyCell(m, cell) ==
    /\ m.timestamp >= BaseMarker.timestamp
    /\ m.timestamp >= cell.timestamp
    /\ m.timestamp \in {BaseMarker.timestamp, cell.timestamp}
    /\ IF cell.live /\ cell.ttl # no_ttl
       THEN m.ttl = cell.ttl /\ m.expiry = cell.expiry
       ELSE m.ttl = no_ttl

C17_KeyCellDecidesExpiry ==
    \A i \in 1..Len(Views) :
        KeyedComputed(i) =>
            /\ markers[i] # <<>>
            /\ MarkerFromKeyCell(markers[i][1], KeyCellOf(i))

\* the base row marker expires at 1 and is newer, the cell expires at 2
C17_Witness ==
    \E i \in 1..Len(Views) :
        /\ KeyedComputed(i)
        /\ is_expiring(BaseMarker)
        /\ is_live(BaseMarker)
        /\ BaseMarker.timestamp > KeyCellOf(i).timestamp
        /\ KeyCellOf(i).live
        /\ KeyCellOf(i).expiry > BaseMarker.expiry
        /\ markers[i][1].expiry = KeyCellOf(i).expiry
        /\ markers[i][1].timestamp = BaseMarker.timestamp

\* ------------------------------------------------------------------------
\* C18: for a view without view key column, the row marker computed from a
\* base row with a live row marker does not expire before any contributing
\* value: it does not expire before the base row marker, nor before any
\* live regular cell of the row, a live cell without TTL never expiring.
\* ------------------------------------------------------------------------
\* compute_row_marker has returned for the view i without view key column,
\* for a base row whose marker is live
PlainComputed(i) ==
    /\ gphase = "computed"
    /\ Views[i].col = <<>>
    /\ is_live(BaseMarker)

\* the marker m does not expire before a value with the given ttl and expiry
NotBefore(m, ttl, expiry) ==
    /\ is_live(m)
    /\ (m.ttl = no_ttl \/ (ttl # no_ttl /\ m.expiry >= expiry))

C18_MarkerOutlivesContributors ==
    \A i \in 1..Len(Views) :
        PlainComputed(i) =>
            /\ markers[i] # <<>>
            /\ NotBefore(markers[i][1], BaseMarker.ttl, BaseMarker.expiry)
            /\ \A c \in Columns :
                  gen_update[1].cells[c].present /\ gen_update[1].cells[c].cell.live
                      => NotBefore(markers[i][1],
                                   gen_update[1].cells[c].cell.ttl,
                                   gen_update[1].cells[c].cell.expiry)

\* ------------------------------------------------------------------------
\* view_update_builder::impl: generate_update over all views, and build()
\* ------------------------------------------------------------------------
\* rows the merge-join hands to impl::generate_update: live markers and
\* cells, which compact_and_expire leaves as they are
BuildCells(values) == {NoCell} \cup {Present(make_live(1, v)) : v \in values}

BuildRows(k) ==
    {clustering_row(k, EmptyTombstone, m, [c \in Columns |-> IF c = 0 THEN c0 ELSE c1]) :
        m \in {MissingMarker, LiveMarker(1)},
        c0 \in BuildCells(Values),
        c1 \in BuildCells({0})}

\* row::apply for atomic cells: the cell that wins the merge is kept
cells_apply(a, b) ==
    [c \in Columns |->
        IF ~b[c].present THEN a[c]
        ELSE IF ~a[c].present THEN b[c]
        ELSE IF compare_atomic_cell_for_merge(a[c].cell, b[c].cell) < 0 THEN b[c]
        ELSE a[c]]

\* update.apply(*_schema, *existing) when existing is engaged
clustering_row_apply(update, existing) ==
    IF existing = <<>>
    THEN update
    ELSE clustering_row(update.key,
                        tombstone_apply(update.tomb, existing[1].tomb),
                        marker_apply(update.marker, existing[1].marker),
                        cells_apply(update.cells, existing[1].cells))

\* matches_view_filter of every view
ViewFilters == [1..Len(Views) -> Filters]

\* the pass so far: the views' maps, the view rows asked for by this call,
\* and whether the call returned (ok) or threw
Pass(vus, rows, ok) == [vus |-> vus, rows |-> rows, ok |-> ok]

view_done(acc, i, g) ==
    Pass([acc.vus EXCEPT ![i] = g.vu], acc.rows \cup TouchedOf(i, g.rows), TRUE)

\* for (auto&& v : _view_updates) v.generate_update(...), from view i on;
\* the filter of view fail_at throws
RECURSIVE generate_for_views(_, _, _, _, _, _)
generate_for_views(acc, i, update, existing, fs, fail_at) ==
    IF i > Len(Views)
    THEN acc
    ELSE IF fail_at = i
    THEN Pass(acc.vus, acc.rows, FALSE)
    ELSE generate_for_views(
             view_done(acc, i,
                       view_generate_update(acc.vus[i], Views[i], update,
                                            existing, fs[i])),
             i + 1, update, existing, fs, fail_at)

\* view_update_builder::impl::generate_update
impl_generate_update(vus, update, existing, fs, fail_at) ==
    IF clustering_row_empty(update)
    THEN Pass(vus, {}, FALSE)
    ELSE generate_for_views(Pass(vus, {}, TRUE), 1,
                            clustering_row_apply(update, existing), existing,
                            fs, fail_at)

\* view_updates::move_to: one mutation per entry of the map
move_to(vu, i) ==
    [j \in 1..Len(vu) |-> [view |-> i, key |-> vu[j].key, partition |-> vu[j].rows]]

\* the continuation of build(): move_to of every view, from view i on
RECURSIVE collect_mutations(_, _)
collect_mutations(vus, i) ==
    IF i > Len(vus)
    THEN <<>>
    ELSE move_to(vus[i], i) \o collect_mutations(vus, i + 1)

\* a failed pass that still hands out what the views hold
failed_result_flushed(vus) == collect_mutations(vus, 1)

\* what build() resolves to when a step failed: the continuation that
\* builds the vector is not run
failed_result(vus) == <<>>

InitBuild ==
    /\ CallIdle
    /\ rtl = <<>>
    /\ hist = <<>>
    /\ ViewIdle
    /\ PartitionIdle
    /\ gen_view = 0
    /\ gen_update = <<>>
    /\ gen_existing = <<>>
    /\ gen_filter = <<>>
    /\ view_updates = NoUpdates
    /\ gen_ops = <<>>
    /\ touched = {}
    /\ markers = <<>>
    /\ mutations = <<>>
    /\ gen_calls = 0
    /\ gphase = "loop"
    /\ RegistryIdle
    /\ MergerIdle

\* the state an on_results step that called generate_update leaves
StepReturns(r) ==
    /\ view_updates' = r.vus
    /\ touched' = touched \cup r.rows
    /\ gphase' = IF r.ok THEN "loop" ELSE "failed"
    /\ mutations' = IF r.ok THEN mutations ELSE failed_result(r.vus)

\* one on_results step that hands a pair of rows to generate_update
BuildStep ==
    /\ gphase = "loop"
    /\ gen_calls < MaxCalls
    /\ \E k \in PKeys :
          \E update \in BuildRows(k) :
             \E existing \in {<<>>} \cup {<<r>> : r \in BuildRows(k)} :
                \E fs \in ViewFilters :
                   \E fail_at \in 0..Len(Views) :
                      StepReturns(impl_generate_update(view_updates, update,
                                                       existing, fs, fail_at))
    /\ gen_calls' = gen_calls + 1
    /\ UNCHANGED <<gen_view, gen_update, gen_existing, gen_filter, gen_ops,
                   markers, rtlVars, callVars, regVars, mergerVars, viewVars, mpVars>>

\* a fetch of one of the streams fails
FetchFails ==
    /\ gphase = "loop"
    /\ gphase' = "failed"
    /\ mutations' = failed_result(view_updates)
    /\ UNCHANGED <<gen_view, gen_update, gen_existing, gen_filter, view_updates,
                   gen_ops, touched, markers, gen_calls, rtlVars, callVars, regVars, mergerVars, viewVars,
                   mpVars>>

\* on_results returned stop: the continuation of build() makes the vector
BuildStop ==
    /\ gphase = "loop"
    /\ gphase' = "done"
    /\ mutations' = collect_mutations(view_updates, 1)
    /\ UNCHANGED <<gen_view, gen_update, gen_existing, gen_filter, view_updates,
                   gen_ops, touched, markers, gen_calls, rtlVars, callVars, regVars, mergerVars, viewVars,
                   mpVars>>

NextBuild == BuildStep \/ FetchFails \/ BuildStop
SpecBuild == InitBuild /\ [][NextBuild]_vars

\* ------------------------------------------------------------------------
\* C19: when a step of a build pass fails (a stream fetch fails,
\* generate_update throws, or the evaluation of a view filter throws),
\* build() completes with the error and returns no mutation at all, whatever
\* the views have accumulated so far; mutations are made only once the
\* merge-join has reached stop without an error.
\* ------------------------------------------------------------------------
Accumulated == \E i \in 1..Len(view_updates) : view_updates[i] # <<>>

C19_FailedPassReturnsNothing ==
    /\ gphase = "failed" => mutations = <<>>
    /\ gphase = "loop" => mutations = <<>>

C19_Witness == gphase = "failed" /\ Accumulated /\ gen_calls = MaxCalls

\* ------------------------------------------------------------------------
\* C20: the list a successful build() returns holds exactly one mutation
\* for each (view, view partition key) for which a view row was touched
\* during the pass: the rows touched under one view partition key are all in
\* that one partition, and no two mutations share view and partition key.
\* ------------------------------------------------------------------------
TouchedPartitions == {<<t.view, t.pk>> : t \in touched}
ReturnedPartitions ==
    {<<mutations[j].view, mutations[j].key>> : j \in 1..Len(mutations)}

OnePerPartition ==
    \A a, b \in 1..Len(mutations) :
       (mutations[a].view = mutations[b].view /\ mutations[a].key = mutations[b].key)
          => a = b

TouchedRowsHeld ==
    \A t \in touched :
       \E j \in 1..Len(mutations) :
          /\ mutations[j].view = t.view
          /\ mutations[j].key = t.pk
          /\ mutations[j].partition[t.ck].exists

C20_OneMutationPerViewPartition ==
    gphase = "done" =>
       /\ OnePerPartition
       /\ ReturnedPartitions = TouchedPartitions
       /\ TouchedRowsHeld

C20_Witness ==
    /\ gphase = "done"
    /\ \E j \in 1..Len(mutations) :
          Cardinality({k \in PKeys : mutations[j].partition[k].exists}) > 1
    /\ \E a, b \in 1..Len(mutations) :
          mutations[a].view = mutations[b].view /\ mutations[a].key # mutations[b].key

\* ------------------------------------------------------------------------
\* mutation_partition: compaction (do_compact, trim_rows,
\* row::compact_and_expire)
\* ------------------------------------------------------------------------
CKeys == 0..CMaxKey

\* the query_time argument, the schema's gc_grace_seconds and gc_before
query_time == 2
gc_grace_seconds == 1
gc_before == query_time - gc_grace_seconds

\* atomic_cell::make_dead(timestamp, deletion_time)
make_dead_at(ts, dt) == atomic_cell(ts, FALSE, no_ttl, dt, 0)

\* atomic_cell_view::deletion_time: of a live expiring cell, expiry - ttl
cell_deletion_time(cell) ==
    IF cell.live THEN cell.expiry - cell.ttl ELSE cell.expiry

\* atomic_cell_view::is_covered_by and has_expired
is_covered_by(cell, tomb) == cell.timestamp <= tomb.timestamp
has_expired(cell, t) == is_live_and_has_ttl(cell) /\ cell.expiry < t

\* should_purge_tombstone with the always_gc predicate of compact_for_query
should_purge_tombstone(t) == t.deletion_time < gc_before

\* an expired cell taken out of the row
expired_cell_dropped(cell) == NoCell

\* the dead cell an expired cell is replaced by
expired_cell(cell) ==
    Present(make_dead_at(cell.timestamp, cell_deletion_time(cell)))

\* the lambda of row::compact_and_expire on an atomic cell c of the row:
\* what the row holds for the column afterwards
compact_cell(c, tomb) ==
    IF ~c.present THEN c
    ELSE IF is_covered_by(c.cell, tomb) THEN NoCell
    ELSE IF has_expired(c.cell, query_time) THEN expired_cell(c.cell)
    ELSE IF ~c.cell.live
    THEN (IF should_purge_tombstone(Tomb(c.cell.timestamp,
                                         cell_deletion_time(c.cell)))
          THEN NoCell
          ELSE c)
    ELSE c

\* the same lambda: whether it sets any_live
cell_any_live(c, tomb) ==
    /\ c.present
    /\ ~is_covered_by(c.cell, tomb)
    /\ ~has_expired(c.cell, query_time)
    /\ c.cell.live

\* row::compact_and_expire: the cells left, and the value returned
row_compact_and_expire(cells, tomb) ==
    [c \in Columns |-> compact_cell(cells[c], tomb)]
row_any_live(cells, tomb) == \E c \in Columns : cell_any_live(cells[c], tomb)

\* row_marker::compact_and_expire: the marker left
marker_expire(m) ==
    IF m.ttl > no_ttl /\ m.expiry < query_time
    THEN Marker(m.timestamp, dead, m.expiry - m.ttl)
    ELSE m
marker_purge(m) ==
    IF m.ttl = dead /\ m.expiry < gc_before
    THEN [m EXCEPT !.timestamp = 0]
    ELSE m
marker_compact_and_expire(m, tomb) ==
    IF is_missing(m) THEN m
    ELSE IF m.timestamp <= tomb.timestamp THEN [m EXCEPT !.timestamp = 0]
    ELSE marker_purge(marker_expire(m))

\* row_marker::compact_and_expire: the value returned
marker_any_live(m, tomb) == is_live(marker_compact_and_expire(m, tomb))

\* mutation_partition::range_tombstone_for_row and tombstone_for_row
range_tombstone_for_row(p, k) ==
    IF p.row_tombstones = <<>>
    THEN p.tombstone
    ELSE tombstone_apply(p.tombstone,
                         search_tombstone_covering(p.row_tombstones, k))
tombstone_for_row(p, k, e) ==
    tombstone_apply(range_tombstone_for_row(p, k), e.deleted_at)

\* row_callback, lines 1192-1202: the row after compaction, and is_live
compact_entry(e, tomb) ==
    Entry(IF should_purge_tombstone(e.deleted_at)
          THEN EmptyTombstone
          ELSE e.deleted_at,
          marker_compact_and_expire(e.marker, tomb),
          row_compact_and_expire(e.cells, tomb))
entry_is_live(e, tomb) ==
    row_any_live(e.cells, tomb) \/ marker_any_live(e.marker, tomb)

\* the walk of trim_rows: _rows, the position of last in iteration order,
\* row_count and stop
Trim(rows, last, count, stop) ==
    [rows |-> rows, last |-> last, count |-> count, stop |-> stop]

\* a callback that counts on without looking at row_limit
row_callback_unlimited(st, k, ce, live, limit) ==
    Trim([st.rows EXCEPT ![k] = IF deletable_row_empty(ce) THEN NoEntry ELSE ce],
         st.last + 1,
         IF live THEN st.count + 1 ELSE st.count,
         FALSE)

\* row_callback, lines 1208-1215, and the body of the loop of trim_rows
\* after it (lines 1156-1165), for the compacted entry ce of key k
row_callback(st, k, ce, live, limit) ==
    IF live /\ st.count = limit
    THEN Trim([st.rows EXCEPT ![k] = ce], st.last, st.count, TRUE)
    ELSE Trim([st.rows EXCEPT ![k] = IF deletable_row_empty(ce) THEN NoEntry ELSE ce],
              st.last + 1,
              IF live THEN st.count + 1 ELSE st.count,
              FALSE)

\* the keys in iteration order: reversal_traits<reversed>::begin .. end
iteration_order(reverse) ==
    [i \in 1..(CMaxKey + 1) |-> IF reverse THEN CMaxKey + 1 - i ELSE i - 1]

\* a clustering range [lo, hi]; full when open ended on both sides
Range(lo, hi, full) == [lo |-> lo, hi |-> hi, full |-> full]
FullRange == Range(0, CMaxKey, TRUE)

\* range_begin and range_end as positions of the iteration order
range_begin(order, r, reverse) ==
    Cardinality({i \in DOMAIN order :
                    IF reverse THEN order[i] > r.hi ELSE order[i] < r.lo}) + 1
range_end(order, r, reverse) ==
    Cardinality({i \in DOMAIN order :
                    IF reverse THEN order[i] >= r.lo ELSE order[i] <= r.hi}) + 1

\* erase_and_dispose of the positions from..to-1
erase_and_dispose(rows, order, from, to) ==
    [k \in CKeys |->
        IF \E i \in from..(to - 1) : order[i] = k THEN NoEntry ELSE rows[k]]

\* the while loop of trim_rows, lines 1154-1166; keys without an entry are
\* not in _rows
RECURSIVE walk_rows(_, _, _, _, _)
walk_rows(st, p, order, end, limit) ==
    IF st.stop \/ st.last >= end
    THEN st
    ELSE IF ~st.rows[order[st.last]].exists
    THEN walk_rows([st EXCEPT !.last = @ + 1], p, order, end, limit)
    ELSE walk_rows(
             row_callback(
                 st, order[st.last],
                 compact_entry(st.rows[order[st.last]],
                               tombstone_for_row(p, order[st.last],
                                                 st.rows[order[st.last]])),
                 entry_is_live(st.rows[order[st.last]],
                               tombstone_for_row(p, order[st.last],
                                                 st.rows[order[st.last]])),
                 limit),
             p, order, end, limit)

\* the rows before the range erased, last at the begin of the range
enter_range(st, order, begin) ==
    Trim(erase_and_dispose(st.rows, order, st.last, begin),
         IF begin > st.last THEN begin ELSE st.last, st.count, FALSE)

\* mutation_partition::trim_rows, from range ri on
RECURSIVE trim_rows(_, _, _, _, _, _, _)
trim_rows(st, p, order, ranges, ri, reverse, limit) ==
    IF st.stop \/ ri > Len(ranges)
    THEN [st EXCEPT !.rows = erase_and_dispose(st.rows, order, st.last,
                                               CMaxKey + 2)]
    ELSE trim_rows(
             walk_rows(enter_range(st, order,
                                   range_begin(order, ranges[ri], reverse)),
                       p, order, range_end(order, ranges[ri], reverse), limit),
             p, order, ranges, ri + 1, reverse, limit)

\* has_ck_selector: some range is not full
has_ck_selector(ranges) == \E i \in 1..Len(ranges) : ~ranges[i].full

\* a count that takes the static row whatever the ranges are
implicit_static_row_any_ranges(count, static_row_live, ranges) ==
    IF count = 0 /\ static_row_live THEN count + 1 ELSE count

\* do_compact, lines 1224-1228
implicit_static_row(count, static_row_live, ranges) ==
    IF count = 0 /\ static_row_live /\ ~has_ck_selector(ranges)
    THEN count + 1
    ELSE count

\* _row_tombstones.erase_where, lines 1230-1232
purge_row_tombstones(l, t) ==
    SelectSeq(l, LAMBDA r : ~(should_purge_tombstone(r.tomb)
                                \/ r.tomb.timestamp <= t.timestamp))

\* what do_compact leaves and returns, from the result t of trim_rows
Compacted(p, t, ranges) ==
    [partition |->
        Partition(IF should_purge_tombstone(p.tombstone)
                  THEN EmptyTombstone
                  ELSE p.tombstone,
                  row_compact_and_expire(p.static_row, p.tombstone),
                  purge_row_tombstones(p.row_tombstones, p.tombstone),
                  t.rows),
     count |-> implicit_static_row(t.count,
                                   row_any_live(p.static_row, p.tombstone),
                                   ranges)]

\* mutation_partition::do_compact, and compact_for_query on top of it
do_compact(p, ranges, reverse, limit) ==
    Compacted(p,
              trim_rows(Trim(p.rows, 1, 0, FALSE), p, iteration_order(reverse),
                        ranges, 1, reverse, limit),
              ranges)

\* the partitions compact_for_query is called on: per clustering key no
\* entry, a live row marker, a live cell, a row tombstone within or past
\* the grace period, or a cell whose TTL has elapsed
CellAt(c, cell) == [EmptyRow EXCEPT ![c] = Present(cell)]
CompactEntries ==
    { NoEntry,
      Entry(EmptyTombstone, LiveMarker(1), EmptyRow),
      Entry(EmptyTombstone, MissingMarker, CellAt(0, make_live(query_time, 0))),
      Entry(Tomb(1, gc_before), MissingMarker, EmptyRow),
      Entry(Tomb(1, gc_before - 1), MissingMarker, EmptyRow),
      Entry(EmptyTombstone, MissingMarker,
            CellAt(0, make_live_ttl(query_time, 0, query_time - 1))) }
CompactStatics ==
    { EmptyRow,
      CellAt(0, make_live(query_time, 0)),
      CellAt(0, make_live_ttl(query_time, 0, query_time - 1)) }
CompactPartitions(keys) ==
    { Partition(d.t, st, d.rts, rows) :
        d \in { [t |-> EmptyTombstone, rts |-> <<>>],
                [t |-> Tomb(1, gc_before), rts |-> <<>>],
                [t |-> EmptyTombstone,
                 rts |-> <<RT(0, 0, Tomb(1, gc_before))>>] },
        st \in CompactStatics,
        rows \in [keys -> CompactEntries] }

\* the row_ranges argument: ordered, disjoint ranges, in iteration order
Reversed(s) == [i \in 1..Len(s) |-> s[Len(s) + 1 - i]]
ForwardRanges ==
    { <<>>,
      <<FullRange>>,
      <<Range(0, CMaxKey, FALSE)>>,
      <<Range(1, CMaxKey - 1, FALSE)>>,
      <<Range(0, 0, FALSE), Range(CMaxKey - 1, CMaxKey, FALSE)>> }
CompactRanges(reverse) ==
    IF reverse THEN {Reversed(r) : r \in ForwardRanges} ELSE ForwardRanges

CompactArgs(limit) ==
    { [partition |-> p, ranges |-> r, reverse |-> rev, row_limit |-> n] :
        p \in CompactPartitions(CKeys),
        rev \in BOOLEAN,
        r \in ForwardRanges \cup {Reversed(x) : x \in ForwardRanges},
        n \in 1..limit }

InitCompact ==
    /\ rtl = <<>>
    /\ hist = <<>>
    /\ ViewIdle
    /\ PartitionIdle
    /\ GenIdle
    /\ call_args \in {a \in CompactArgs(MaxLimit) : a.ranges \in CompactRanges(a.reverse)}
    /\ call_result = <<>>
    /\ call_pc = "call"
    /\ RegistryIdle
    /\ MergerIdle

\* p.compact_for_query(s, query_time, row_ranges, reverse, row_limit)
CompactForQuery ==
    /\ call_pc = "call"
    /\ call_result' = do_compact(call_args.partition, call_args.ranges,
                                 call_args.reverse, call_args.row_limit)
    /\ call_pc' = "returned"
    /\ UNCHANGED <<call_args, regVars, mergerVars, rtlVars, viewVars, mpVars, genVars>>

NextCompact == CompactForQuery
SpecCompact == InitCompact /\ [][NextCompact]_vars

\* ------------------------------------------------------------------------
\* C21: compact_for_query with row_limit > 0 returns a count of live rows
\* that does not exceed row_limit and leaves at most row_limit live
\* clustering rows in the partition; the rows that after their compaction
\* are not live but not empty and lie, in iteration order, between the
\* row_limit-th live row and the next live row are kept, and that next live
\* row and every row after it are removed.
\* ------------------------------------------------------------------------
CompactReturned == call_pc = "returned"

\* a row that holds a live row marker or a live cell
LiveRow(e) ==
    /\ e.exists
    /\ (is_live(e.marker)
          \/ \E c \in Columns : e.cells[c].present /\ e.cells[c].cell.live)

\* the row of key k of the partition before the call, as compaction under
\* the tombstone that applies to it leaves it
CompactImage(k) ==
    compact_entry(call_args.partition.rows[k],
                  tombstone_for_row(call_args.partition, k,
                                    call_args.partition.rows[k]))

Selected(k) ==
    /\ call_args.partition.rows[k].exists
    /\ \E i \in 1..Len(call_args.ranges) :
          call_args.ranges[i].lo <= k /\ k <= call_args.ranges[i].hi

LiveSelected(k) == Selected(k) /\ LiveRow(CompactImage(k))

Precedes(j, k) == IF call_args.reverse THEN j > k ELSE j < k

LiveBefore(k) == Cardinality({j \in CKeys : LiveSelected(j) /\ Precedes(j, k)})

\* k is the live row that follows the row_limit-th live row
NextLiveRow(k) == LiveSelected(k) /\ LiveBefore(k) = call_args.row_limit

\* j is a dead but not empty row after the row_limit-th live row
TrailingRow(j) ==
    /\ Selected(j)
    /\ LiveBefore(j) = call_args.row_limit
    /\ ~LiveRow(CompactImage(j))
    /\ ~deletable_row_empty(CompactImage(j))

LiveRowsLeft == {k \in CKeys : LiveRow(call_result.partition.rows[k])}

C21_RowLimit ==
    CompactReturned =>
       /\ call_result.count <= call_args.row_limit
       /\ Cardinality(LiveRowsLeft) <= call_args.row_limit
       /\ \A k \in CKeys :
             NextLiveRow(k) =>
                /\ \A j \in CKeys :
                      ~Precedes(j, k) => ~call_result.partition.rows[j].exists
                /\ \A j \in CKeys :
                      Precedes(j, k) /\ TrailingRow(j) =>
                         call_result.partition.rows[j] = CompactImage(j)

C21_Witness ==
    /\ CompactReturned
    /\ \E k, j, l \in CKeys :
          /\ NextLiveRow(k)
          /\ Precedes(j, k) /\ TrailingRow(j)
          /\ Precedes(k, l) /\ call_args.partition.rows[l].exists
          /\ call_result.partition.rows[j].exists

\* ------------------------------------------------------------------------
\* C22: compaction replaces a live atomic cell whose TTL has elapsed at
\* query time, and which the applicable tombstone does not cover, by a dead
\* cell with the same timestamp; the dead cell stays in the row in that pass
\* and the cell does not count as live.
\* ------------------------------------------------------------------------
\* the cell c of a row is live, uncovered by tomb, and its TTL has elapsed
ElapsedCell(cells, c, tomb) ==
    /\ cells[c].present
    /\ cells[c].cell.live
    /\ cells[c].cell.ttl # no_ttl
    /\ cells[c].cell.expiry < query_time
    /\ cells[c].cell.timestamp > tomb.timestamp

\* after is the dead cell that takes the place of before
DeadInPlace(before, after) ==
    /\ after.present
    /\ ~after.cell.live
    /\ after.cell.timestamp = before.cell.timestamp

\* the walk of trim_rows reaches key k and goes on after it
Walked(k) ==
    /\ Selected(k)
    /\ \A j \in CKeys : NextLiveRow(j) => Precedes(k, j)

\* live content the query still sees: a cell or marker that is live, has
\* not expired and is not covered
StillLiveCell(cells, tomb) ==
    \E c \in Columns :
       /\ cells[c].present
       /\ cells[c].cell.live
       /\ cells[c].cell.timestamp > tomb.timestamp
       /\ (cells[c].cell.ttl = no_ttl \/ cells[c].cell.expiry >= query_time)
StillLiveMarker(m, tomb) ==
    /\ is_live(m)
    /\ m.timestamp > tomb.timestamp
    /\ (m.ttl = no_ttl \/ m.expiry >= query_time)
StillLive(k) ==
    /\ Selected(k)
    /\ \/ StillLiveCell(call_args.partition.rows[k].cells,
                        tombstone_for_row(call_args.partition, k,
                                          call_args.partition.rows[k]))
       \/ StillLiveMarker(call_args.partition.rows[k].marker,
                          tombstone_for_row(call_args.partition, k,
                                            call_args.partition.rows[k]))

C22_ExpiredCellBecomesDead ==
    CompactReturned =>
       /\ \A k \in CKeys : \A c \in Columns :
             (Walked(k)
                /\ ElapsedCell(call_args.partition.rows[k].cells, c,
                               tombstone_for_row(call_args.partition, k,
                                                 call_args.partition.rows[k])))
                => /\ call_result.partition.rows[k].exists
                   /\ DeadInPlace(call_args.partition.rows[k].cells[c],
                                  call_result.partition.rows[k].cells[c])
                   /\ (LiveRow(call_result.partition.rows[k]) => StillLive(k))
       /\ \A c \in Columns :
             ElapsedCell(call_args.partition.static_row, c,
                         call_args.partition.tombstone)
                => DeadInPlace(call_args.partition.static_row[c],
                               call_result.partition.static_row[c])
       /\ call_result.count <=
             Cardinality({k \in CKeys : StillLive(k)})
               + (IF StillLiveCell(call_args.partition.static_row,
                                   call_args.partition.tombstone)
                  THEN 1
                  ELSE 0)

C22_Witness ==
    /\ CompactReturned
    /\ call_result.count = 0
    /\ \E k \in CKeys : \E c \in Columns :
          /\ ElapsedCell(call_args.partition.rows[k].cells, c,
                         tombstone_for_row(call_args.partition, k,
                                           call_args.partition.rows[k]))
          /\ call_result.partition.rows[k].exists
          /\ ~call_result.partition.rows[k].cells[c].cell.live

\* ------------------------------------------------------------------------
\* C23: the count do_compact returns includes one implicit row for the
\* static row exactly when no live clustering row was counted, the static
\* row has live data after compaction and the row ranges hold no
\* clustering-key restriction; with a restriction a live static row adds
\* nothing to the count.
\* ------------------------------------------------------------------------
StaticRowLive ==
    \E c \in Columns :
       /\ call_result.partition.static_row[c].present
       /\ call_result.partition.static_row[c].cell.live

Restricted ==
    \E i \in 1..Len(call_args.ranges) : ~call_args.ranges[i].full

ImplicitRow == LiveRowsLeft = {} /\ StaticRowLive /\ ~Restricted

C23_StaticRowCounted ==
    CompactReturned =>
       /\ ImplicitRow =>
             call_result.count = Cardinality(LiveRowsLeft) + 1
       /\ ~ImplicitRow => call_result.count = Cardinality(LiveRowsLeft)

C23_Witness ==
    /\ CompactReturned
    /\ ImplicitRow
    /\ call_result.count > Cardinality(LiveRowsLeft)
    /\ \E k \in CKeys : call_result.partition.rows[k].exists

\* ------------------------------------------------------------------------
\* mutation_partition::apply(s, p, p_schema) and upgrade
\* ------------------------------------------------------------------------
\* get_column_mapping: for a column of the old schema its id in the new
\* schema, NoColumn when the new schema does not have it
NoColumn == NumCols
ColumnMappings ==
    { [c \in Columns |-> c],
      [c \in Columns |-> NumCols - 1 - c],
      [c \in Columns |-> IF c = NumCols - 1 THEN NoColumn ELSE c] }

\* the cells of a row as the converting applier leaves them in tmp
upgrade_row(cells, mapping) ==
    [c \in Columns |->
        IF \E o \in Columns : mapping[o] = c /\ cells[o].present
        THEN cells[CHOOSE o \in Columns : mapping[o] = c /\ cells[o].present]
        ELSE NoCell]

\* mutation_partition::upgrade: accept() into tmp, then *this = tmp
upgrade(p, mapping) ==
    Partition(p.tombstone,
              upgrade_row(p.static_row, mapping),
              p.row_tombstones,
              [k \in PKeys |->
                  IF p.rows[k].exists
                  THEN [p.rows[k] EXCEPT !.cells = upgrade_row(@, mapping)]
                  ELSE p.rows[k]])

\* the calls mutation_partition::accept makes on the visitor
visits(p) ==
    Cardinality({c \in Columns : p.static_row[c].present})
        + Len(p.row_tombstones)
        + Cardinality({k \in PKeys : p.rows[k].exists})
        + Cardinality({kc \in PKeys \X Columns :
                          /\ p.rows[kc[1]].exists
                          /\ p.rows[kc[1]].cells[kc[2]].present})
        + 1

\* what apply leaves and whether it threw
Applied(r) == [target |-> r.dst, thrown |-> ~r.ok]

\* an upgrade that converts into the target and throws midway
upgrade_failed_in_place(dst, p, fail_at) ==
    [target |-> [dst EXCEPT !.tombstone = tombstone_apply(@, p.tombstone)],
     thrown |-> TRUE]

\* p2.upgrade(p_schema, s) throws at its visit fail_at: p2 is a copy of p
\* and apply(s, std::move(p2)) is not reached
upgrade_failed(dst, p, fail_at) == [target |-> dst, thrown |-> TRUE]

\* mutation_partition::apply(s, p, p_schema)
apply_schemas(dst, p, differ, mapping, fail_at, f) ==
    IF differ
    THEN IF fail_at # 0
         THEN upgrade_failed(dst, p, fail_at)
         ELSE Applied(mutation_partition_apply(dst, upgrade(p, mapping), f))
    ELSE Applied(mutation_partition_apply(dst, p, f))

\* the partitions of the calls
SchemaEntries ==
    { NoEntry,
      Entry(EmptyTombstone, LiveMarker(1),
            [EmptyRow EXCEPT ![0] = [present |-> TRUE, cell |-> LiveCell(1)]]),
      Entry(EmptyTombstone, MissingMarker,
            [EmptyRow EXCEPT ![NumCols - 1] =
                [present |-> TRUE, cell |-> LiveCell(MaxTs)]]) }
SchemaPartitions(rtss) ==
    { Partition(t, e.cells, rts, rows) :
        t \in {EmptyTombstone, Tomb(1, 0)},
        e \in SchemaEntries,
        rts \in rtss,
        rows \in [PKeys -> SchemaEntries] }

SchemaArgs(mappings) ==
    { [target |-> t, other |-> p, differ |-> d, mapping |-> m,
       fail_at |-> n, failure |-> NoFailure] :
        t \in SchemaPartitions({<<>>}),
        p \in SchemaPartitions({<<>>, <<RT(0, 0, Tomb(1, 0))>>}),
        d \in BOOLEAN,
        m \in mappings,
        n \in 0..(NumCols + NumCols + PMaxKey + PMaxKey + 4) }

InitSchemas ==
    /\ rtl = <<>>
    /\ hist = <<>>
    /\ ViewIdle
    /\ PartitionIdle
    /\ GenIdle
    /\ \E a \in SchemaArgs(ColumnMappings) :
          /\ a.fail_at <= visits(a.other)
          /\ a.differ \/ (a.fail_at = 0 /\ a.mapping = [c \in Columns |-> c])
          /\ \E f \in IF a.fail_at # 0
                      THEN {NoFailure}
                      ELSE Failures(a.target,
                                    IF a.differ
                                    THEN upgrade(a.other, a.mapping)
                                    ELSE a.other) :
                call_args = [a EXCEPT !.failure = f]
    /\ call_result = <<>>
    /\ call_pc = "call"
    /\ RegistryIdle
    /\ MergerIdle

\* target.apply(s, other, other_schema)
ApplySchemas ==
    /\ call_pc = "call"
    /\ call_result' = apply_schemas(call_args.target, call_args.other,
                                    call_args.differ, call_args.mapping,
                                    call_args.fail_at, call_args.failure)
    /\ call_pc' = "returned"
    /\ UNCHANGED <<call_args, regVars, mergerVars, rtlVars, viewVars, mpVars, genVars>>

NextSchemas == ApplySchemas
SpecSchemas == InitSchemas /\ [][NextSchemas]_vars

\* ------------------------------------------------------------------------
\* C24: in an apply across schema versions, when the upgrade of other to
\* the target's schema fails, the call throws and the target partition is
\* as it was before the call: the upgrade works on a private copy of other
\* and fails before any field of the target is touched.
\* ------------------------------------------------------------------------
UpgradeFails ==
    call_pc = "returned" /\ call_args.differ /\ call_args.fail_at # 0

C24_FailedUpgradeLeavesTarget ==
    UpgradeFails =>
       /\ call_result.thrown
       /\ call_result.target = call_args.target
       /\ mutation_partition_equal(call_result.target, call_args.target)

C24_Witness ==
    /\ UpgradeFails
    /\ call_result.thrown
    /\ call_args.fail_at = visits(call_args.other)
    /\ ~mutation_partition_equal(
           merge(call_args.target, upgrade(call_args.other, call_args.mapping)),
           call_args.target)
    /\ call_args.other.tombstone # call_args.target.tombstone

\* ------------------------------------------------------------------------
\* range_tombstone_list::add called with any range, inverted ones included
\* ------------------------------------------------------------------------
Malformed == {r \in Ranges : r.stop < r.start}

\* l.add(s, rt) for a range whose start is after its stop
AddMalformed ==
    /\ Len(hist) < MaxAdds
    /\ \E r \in Malformed :
          /\ rtl' = add(rtl, r.start, r.stop, r.tomb)
          /\ hist' = Append(hist, r)
    /\ UNCHANGED <<viewVars, callVars, regVars, mergerVars, mpVars, genVars>>

NextAnyRange == Add \/ AddMalformed
SpecAnyRange == InitRTL /\ [][NextAnyRange]_vars

\* ------------------------------------------------------------------------
\* C25: a range tombstone with inverted bounds (start > stop) given to
\* range_tombstone_list::add is rejected and leaves the list as it was,
\* instead of being inserted.
\* ------------------------------------------------------------------------
MalformedAdded ==
    /\ Len(hist') = Len(hist) + 1
    /\ hist'[Len(hist')].stop < hist'[Len(hist')].start

C25_MalformedRejected == [][MalformedAdded => rtl' = rtl]_vars

\* ------------------------------------------------------------------------
\* row_marker::apply_reversibly on a pair of markers
\* ------------------------------------------------------------------------
\* the counts a gc_clock time point can hold: signed, ClockBits wide
ClockCounts == (0 - 2 ^ (ClockBits - 1))..(2 ^ (ClockBits - 1) - 1)

MergeMarkers ==
    {MissingMarker}
        \cup {LiveMarker(ts) : ts \in Timestamps}
        \cup {Marker(ts, 1, e) : ts \in Timestamps, e \in ClockCounts}
        \cup {Marker(ts, dead, d) : ts \in Timestamps, d \in ClockCounts}

InitMarkerMerge ==
    /\ rtl = <<>>
    /\ hist = <<>>
    /\ ViewIdle
    /\ PartitionIdle
    /\ GenIdle
    /\ call_args \in [left : MergeMarkers, right : MergeMarkers]
    /\ call_result = <<>>
    /\ call_pc = "call"
    /\ RegistryIdle
    /\ MergerIdle

\* left.apply_reversibly(right)
MarkerApply ==
    /\ call_pc = "call"
    /\ call_result' = marker_apply_reversibly(call_args.left, call_args.right)
    /\ call_pc' = "returned"
    /\ UNCHANGED <<call_args, regVars, mergerVars, rtlVars, viewVars, mpVars, genVars>>

NextMarkerMerge == MarkerApply
SpecMarkerMerge == InitMarkerMerge /\ [][NextMarkerMerge]_vars

\* ------------------------------------------------------------------------
\* C26: the merge of two row markers keeps the one with the larger
\* timestamp; with equal timestamps a dead marker wins over a live one, and
\* of two live expiring markers with equal timestamps the one with the
\* later expiry wins.
\* ------------------------------------------------------------------------
MarkersMerged == call_pc = "returned"

\* a and b are the two markers of the call, in either order
TheMarkers(a, b) ==
    \/ a = call_args.left /\ b = call_args.right
    \/ a = call_args.right /\ b = call_args.left

LaterTimestampWins ==
    \A a, b \in MergeMarkers :
       TheMarkers(a, b) /\ a.timestamp > b.timestamp => call_result.dst = a

LaterExpiryWins ==
    \A a, b \in MergeMarkers :
       (/\ TheMarkers(a, b)
        /\ a.timestamp = b.timestamp
        /\ is_live(a) /\ is_live(b)
        /\ is_expiring(a) /\ is_expiring(b)
        /\ a.expiry > b.expiry)
          => call_result.dst = a

C26_MarkerMerge ==
    MarkersMerged =>
       /\ LaterTimestampWins
       /\ LaterExpiryWins
       /\ \A a, b \in MergeMarkers :
             (/\ TheMarkers(a, b)
              /\ a.timestamp = b.timestamp
              /\ ~is_live(a) /\ is_live(b))
                => call_result.dst = a

\* C26 as stated: with equal timestamps a live marker wins over a dead one
C26_LiveWinsOverDead ==
    MarkersMerged =>
       /\ LaterTimestampWins
       /\ LaterExpiryWins
       /\ \A a, b \in MergeMarkers :
             (/\ TheMarkers(a, b)
              /\ a.timestamp = b.timestamp
              /\ is_live(a) /\ ~is_live(b))
                => call_result.dst = a

C26_Witness ==
    /\ MarkersMerged
    /\ call_args.left.timestamp = call_args.right.timestamp
    /\ is_live(call_args.left)
    /\ ~is_live(call_args.right)
    /\ call_result.dst = call_args.right

\* ------------------------------------------------------------------------
\* C27: of two dead markers with equal timestamps and different deletion
\* times the merge keeps the one whose deletion time, cast to the unsigned
\* count of the clock's width (its value modulo 2^width), is the larger;
\* the wrapped values are compared, not the signed full-width ones.
\* ------------------------------------------------------------------------
DeadPair(a, b) ==
    /\ TheMarkers(a, b)
    /\ ~is_missing(a) /\ ~is_missing(b)
    /\ a.ttl = dead /\ b.ttl = dead
    /\ a.timestamp = b.timestamp
    /\ a.expiry # b.expiry

Wrapped(t) == IF t < 0 THEN t + 2 ^ ClockBits ELSE t

C27_WrappedDeletionTimeWins ==
    MarkersMerged =>
       \A a, b \in MergeMarkers :
          DeadPair(a, b) /\ Wrapped(a.expiry) > Wrapped(b.expiry)
             => call_result.dst = a

C27_Witness ==
    /\ MarkersMerged
    /\ DeadPair(call_args.left, call_args.right)
    /\ call_args.left.expiry < call_args.right.expiry
    /\ Wrapped(call_args.left.expiry) > Wrapped(call_args.right.expiry)
    /\ call_result.dst = call_args.left

\* ------------------------------------------------------------------------
\* deletable_row::difference
\* ------------------------------------------------------------------------
\* a difference that carries the whole row
deletable_row_copy(a, b) == a

\* deletable_row::difference: dr starts empty; the tombstone, the marker and
\* the cells of *this that other does not supersede are applied to it
deletable_row_difference(a, b) ==
    Entry(IF tombstone_gt(a.deleted_at, b.deleted_at)
          THEN tombstone_apply(EmptyTombstone, a.deleted_at)
          ELSE EmptyTombstone,
          IF compare_row_marker_for_merge(a.marker, b.marker) > 0
          THEN marker_apply(MissingMarker, a.marker)
          ELSE MissingMarker,
          row_difference(a.cells, b.cells))

\* the rows of the calls
DifferenceRows ==
    { Entry(t, m, [c \in Columns |-> IF c = 0 THEN c0 ELSE c1]) :
        t \in {EmptyTombstone, Tomb(1, 0), Tomb(1, 1), Tomb(MaxTs, 0)},
        m \in {MissingMarker, LiveMarker(1), LiveMarker(MaxTs),
               DeadMarker(1), ExpiringMarker(1)},
        c0 \in {NoCell} \cup {[present |-> TRUE, cell |-> LiveCell(ts)] :
                                 ts \in Timestamps},
        c1 \in {NoCell, [present |-> TRUE, cell |-> LiveCell(1)]} }

InitDifference ==
    /\ rtl = <<>>
    /\ hist = <<>>
    /\ ViewIdle
    /\ PartitionIdle
    /\ GenIdle
    /\ call_args \in [self : DifferenceRows, other : DifferenceRows]
    /\ call_result = <<>>
    /\ call_pc = "call"
    /\ RegistryIdle
    /\ MergerIdle

\* self.difference(s, kind, other)
Difference ==
    /\ call_pc = "call"
    /\ call_result' = deletable_row_difference(call_args.self, call_args.other)
    /\ call_pc' = "returned"
    /\ UNCHANGED <<call_args, regVars, mergerVars, rtlVars, viewVars, mpVars, genVars>>

NextDifference == Difference
SpecDifference == InitDifference /\ [][NextDifference]_vars

\* ------------------------------------------------------------------------
\* C28: the result of deletable_row::difference(self, other) carries self's
\* row tombstone only if it is greater than other's (a later timestamp, or
\* the same timestamp and a later deletion time), carries self's row marker
\* only if it wins the merge against other's marker, and carries a cell only
\* if other has no cell for the column or self's cell strictly dominates
\* other's; the difference of a row with itself is empty.
\* ------------------------------------------------------------------------
DifferenceTaken == call_pc = "returned"

TombstoneCarried == tombstone_set(call_result.deleted_at)
MarkerCarried == ~is_missing(call_result.marker)
CellCarried(c) == call_result.cells[c].present

LaterTombstone(a, b) ==
    \/ a.timestamp > b.timestamp
    \/ a.timestamp = b.timestamp /\ a.deletion_time > b.deletion_time

WinningMarker(a, b) ==
    \/ a.timestamp > b.timestamp
    \/ /\ a.timestamp = b.timestamp
       /\ \/ a.ttl = dead /\ b.ttl # dead
          \/ /\ a.ttl = dead /\ b.ttl = dead
             /\ Wrapped(a.expiry) > Wrapped(b.expiry)
          \/ /\ a.ttl \notin {dead, no_ttl} /\ b.ttl \notin {dead, no_ttl}
             /\ a.expiry > b.expiry

DominatingCells ==
    \A c \in Columns :
       CellCarried(c) =>
          /\ call_result.cells[c] = call_args.self.cells[c]
          /\ call_args.self.cells[c].present
          /\ \/ ~call_args.other.cells[c].present
             \/ call_args.self.cells[c].cell.timestamp
                   > call_args.other.cells[c].cell.timestamp

SelfDifferenceEmpty ==
    call_args.self = call_args.other => deletable_row_empty(call_result)

C28_DifferenceKeepsWinners ==
    DifferenceTaken =>
       /\ TombstoneCarried =>
             /\ call_result.deleted_at = call_args.self.deleted_at
             /\ LaterTombstone(call_args.self.deleted_at,
                               call_args.other.deleted_at)
       /\ MarkerCarried =>
             /\ call_result.marker = call_args.self.marker
             /\ WinningMarker(call_args.self.marker, call_args.other.marker)
       /\ DominatingCells
       /\ SelfDifferenceEmpty

\* C28 as stated: the tombstone and the marker are carried only with a
\* later timestamp
C28_LaterTimestampOnly ==
    DifferenceTaken =>
       /\ TombstoneCarried =>
             call_args.self.deleted_at.timestamp
                > call_args.other.deleted_at.timestamp
       /\ MarkerCarried =>
             call_args.self.marker.timestamp > call_args.other.marker.timestamp
       /\ DominatingCells
       /\ SelfDifferenceEmpty

C28_Witness ==
    /\ DifferenceTaken
    /\ TombstoneCarried
    /\ call_args.self.deleted_at.timestamp = call_args.other.deleted_at.timestamp
    /\ MarkerCarried
    /\ call_args.self.marker.timestamp = call_args.other.marker.timestamp
    /\ \E c \in Columns : CellCarried(c) /\ call_args.other.cells[c].present

\* ------------------------------------------------------------------------
\* C29: adding a singleton [x,x]@t to a list that already contains the
\* singleton [x,x]@t' leaves the list unchanged when t <= t' and replaces
\* the existing singleton by [x,x]@t when t > t'; the list never ends up
\* with two [x,x] entries.
\* ------------------------------------------------------------------------
Singleton(r) == r.start = r.stop

\* positions of the singletons [x,x] of a list
SingletonsAt(l, x) == {i \in 1..Len(l) : Singleton(l[i]) /\ l[i].start = x}

\* the step is an add() call; its range is the last of the new history
Added == Len(hist') = Len(hist) + 1

NewRange == hist'[Len(hist')]

C29_SameSingleton ==
    [][\A i \in 1..Len(rtl) :
          (/\ Added
           /\ Singleton(NewRange)
           /\ i \in SingletonsAt(rtl, NewRange.start))
          => /\ IF NewRange.tomb.timestamp <= rtl[i].tomb.timestamp
                THEN rtl' = rtl
                ELSE rtl' = Assign(rtl, i, NewRange)
             /\ Cardinality(SingletonsAt(rtl', NewRange.start)) = 1]_vars

\* a singleton at the end of an interval was replaced by a later one
C29_Witness ==
    /\ Len(hist) = MaxAdds
    /\ hist[1].start < hist[1].stop
    /\ Singleton(hist[2])
    /\ Singleton(hist[3])
    /\ hist[2].start = hist[1].stop
    /\ hist[3].start = hist[2].start
    /\ hist[2].tomb.timestamp < hist[3].tomb.timestamp
    /\ rtl = <<hist[1], hist[3]>>

\* ------------------------------------------------------------------------
\* C30: when the list holds a singleton [x,x]@t located at the end of a
\* preceding interval [w,x], adding a range [x,y] with y > x keeps the
\* singleton and inserts [x,y] after it if the new timestamp is not greater
\* than t, and removes the singleton (leaving [w,x] followed by [x,y]) if
\* the new timestamp is greater than t; the preceding interval [w,x] is
\* unchanged in both cases.
\* ------------------------------------------------------------------------
\* the singleton at position i closes the interval before it
ClosesInterval(l, i) ==
    /\ i > 1
    /\ Singleton(l[i])
    /\ l[i - 1].start < l[i - 1].stop
    /\ l[i - 1].stop = l[i].start

\* nothing stored after position i reaches into the new range
NothingBeyond(l, i, r) == i = Len(l) \/ r.stop < l[i + 1].start

C30_SingletonAtIntervalEnd ==
    [][\A i \in 1..Len(rtl) :
          (/\ Added
           /\ NewRange.start < NewRange.stop
           /\ ClosesInterval(rtl, i)
           /\ rtl[i].start = NewRange.start)
          => /\ SubSeq(rtl', 1, i - 1) = SubSeq(rtl, 1, i - 1)
             /\ IF NewRange.tomb.timestamp <= rtl[i].tomb.timestamp
                THEN /\ rtl'[i] = rtl[i]
                     /\ NothingBeyond(rtl, i, NewRange)
                           => rtl' = InsertAfter(rtl, i, NewRange)
                ELSE /\ SingletonsAt(rtl', NewRange.start) = {}
                     /\ NothingBeyond(rtl, i, NewRange)
                           => rtl' = Assign(rtl, i, NewRange)]_vars

\* the singleton was kept and the new range inserted after it
C30_Witness ==
    /\ Len(hist) = MaxAdds
    /\ hist[1].start < hist[1].stop
    /\ Singleton(hist[2])
    /\ hist[2].start = hist[1].stop
    /\ hist[3].start = hist[2].start
    /\ hist[3].start < hist[3].stop
    /\ hist[3].tomb.timestamp <= hist[2].tomb.timestamp
    /\ rtl = <<hist[1], hist[2], hist[3]>>

\* ------------------------------------------------------------------------
\* schema_registry_entry: shared promises, futures and maybe_sync
\* ------------------------------------------------------------------------
\* shared_promise: a promise is pending until a value or an exception is
\* set; every shared future obtained from it resolves with what was set
NewPromise(ps) == Append(ps, "pending")

set_value(ps, p) == [ps EXCEPT ![p] = "value"]

set_exception(ps, p) == [ps EXCEPT ![p] = "exception"]

\* make_ready_future<>()
ReadyFuture(st) ==
    [promise |-> 0, invoked |-> FALSE, at |-> st]

\* get_shared_future() of promise p; invoked tells whether the call ran
\* the syncer or loader it was given
SharedFuture(p, invoked, st) ==
    [promise |-> p, invoked |-> invoked, at |-> st]

\* what a future holds: pending, value or exception
FutureState(ps, f) == IF f.promise = 0 THEN "value" ELSE ps[f.promise]

\* the continuation attached with then_wrapped to the future f returned by
\* a syncer or a loader: f's outcome is unknown while f is not ready
Task(v, p, outcome, done) ==
    [version |-> v, promise |-> p, outcome |-> outcome, done |-> done]

\* a failed sync that marks the entry synced
sync_done_always_synced(st, ps, failed) ==
    IF st # "SYNCING"
    THEN [sync_state |-> st, promises |-> ps]
    ELSE [sync_state |-> "SYNCED", promises |-> set_value(ps, Len(ps))]

\* the continuation of maybe_sync: f.then_wrapped([this, self] (auto&& f))
sync_done(st, ps, failed) ==
    IF st # "SYNCING"
    THEN [sync_state |-> st, promises |-> ps]
    ELSE IF failed
         THEN [sync_state |-> "NOT_SYNCED",
               promises |-> set_exception(ps, Len(ps))]
         ELSE [sync_state |-> "SYNCED",
               promises |-> set_value(ps, Len(ps))]

\* a maybe_sync that runs its own syncer while a sync is in flight
maybe_sync_always_starts(st, ps, fs, ts, syncer, inline) ==
    LET ps1 == NewPromise(ps)
        after == sync_done("SYNCING", ps1, syncer = "exception")
    IN IF st = "SYNCED"
       THEN [sync_state |-> st, promises |-> ps,
             futures |-> Append(fs, ReadyFuture(st)), tasks |-> ts]
       ELSE IF syncer # "unknown" /\ inline
       THEN [sync_state |-> after.sync_state, promises |-> after.promises,
             futures |-> Append(fs, SharedFuture(Len(ps1), TRUE, st)),
             tasks |-> Append(ts, Task(0, Len(ps1), syncer, TRUE))]
       ELSE [sync_state |-> "SYNCING", promises |-> ps1,
             futures |-> Append(fs, SharedFuture(Len(ps1), TRUE, st)),
             tasks |-> Append(ts, Task(0, Len(ps1), syncer, FALSE))]

\* schema_registry_entry::maybe_sync(syncer): syncer is the outcome of the
\* future the syncer returns (unknown when it defers); a ready future's
\* continuation runs inline unless the reactor asks for preemption
maybe_sync(st, ps, fs, ts, syncer, inline) ==
    LET ps1 == NewPromise(ps)
        after == sync_done("SYNCING", ps1, syncer = "exception")
    IN IF st = "SYNCED"
       THEN [sync_state |-> st, promises |-> ps,
             futures |-> Append(fs, ReadyFuture(st)), tasks |-> ts]
       ELSE IF st = "SYNCING"
       THEN [sync_state |-> st, promises |-> ps,
             futures |-> Append(fs, SharedFuture(Len(ps), FALSE, st)),
             tasks |-> ts]
       ELSE IF syncer # "unknown" /\ inline
       THEN [sync_state |-> after.sync_state, promises |-> after.promises,
             futures |-> Append(fs, SharedFuture(Len(ps1), TRUE, st)),
             tasks |-> Append(ts, Task(0, Len(ps1), syncer, TRUE))]
       ELSE [sync_state |-> "SYNCING", promises |-> ps1,
             futures |-> Append(fs, SharedFuture(Len(ps1), TRUE, st)),
             tasks |-> Append(ts, Task(0, Len(ps1), syncer, FALSE))]

\* schema_registry_entry::mark_synced
mark_synced(st, ps) ==
    [sync_state |-> "SYNCED",
     promises |-> IF st = "SYNCING" THEN set_value(ps, Len(ps)) ELSE ps]

FutureOutcomes == {"value", "exception", "unknown"}

\* a loaded entry, not synced; _synced_promise is promise 1
InitSync ==
    /\ rtl = <<>>
    /\ hist = <<>>
    /\ ViewIdle
    /\ PartitionIdle
    /\ GenIdle
    /\ CallIdle
    /\ MergerIdle
    /\ entries = <<[state |-> "LOADED", promise |-> 0]>>
    /\ sync_state = "NOT_SYNCED"
    /\ promises = <<"pending">>
    /\ futures = <<>>
    /\ tasks = <<>>

\* e.maybe_sync(syncer)
MaybeSync ==
    /\ Len(futures) < MaxSyncs
    /\ \E syncer \in FutureOutcomes, inline \in BOOLEAN :
          LET r == maybe_sync(sync_state, promises, futures, tasks,
                              syncer, inline)
          IN /\ sync_state' = r.sync_state
             /\ promises' = r.promises
             /\ futures' = r.futures
             /\ tasks' = r.tasks
    /\ UNCHANGED <<entries, mergerVars, callVars, rtlVars, viewVars, mpVars,
                   genVars>>

\* the future of a deferring syncer becomes ready
SyncerResolves ==
    /\ \E i \in 1..Len(tasks), outcome \in {"value", "exception"} :
          /\ tasks[i].outcome = "unknown"
          /\ tasks' = [tasks EXCEPT ![i].outcome = outcome]
    /\ UNCHANGED <<entries, sync_state, promises, futures, mergerVars,
                   callVars, rtlVars, viewVars, mpVars, genVars>>

\* the reactor runs the continuation of a ready syncer future
SyncDone ==
    /\ \E i \in 1..Len(tasks) :
          /\ ~tasks[i].done
          /\ tasks[i].outcome # "unknown"
          /\ LET r == sync_done(sync_state, promises,
                                tasks[i].outcome = "exception")
             IN /\ sync_state' = r.sync_state
                /\ promises' = r.promises
          /\ tasks' = [tasks EXCEPT ![i].done = TRUE]
    /\ UNCHANGED <<entries, futures, mergerVars, callVars, rtlVars, viewVars,
                   mpVars, genVars>>

\* e.mark_synced(); the caller guarantees that no sync is in progress
MarkSynced ==
    /\ sync_state # "SYNCING"
    /\ LET r == mark_synced(sync_state, promises)
       IN /\ sync_state' = r.sync_state
          /\ promises' = r.promises
    /\ UNCHANGED <<entries, futures, tasks, mergerVars, callVars, rtlVars,
                   viewVars, mpVars, genVars>>

NextSync == MaybeSync \/ SyncerResolves \/ SyncDone \/ MarkSynced
SpecSync == InitSync /\ [][NextSync]_vars

\* ------------------------------------------------------------------------
\* C31: while a sync started by maybe_sync is in flight, further maybe_sync
\* calls do not invoke their own syncer and share the in-flight outcome; if
\* that sync fails, every attached caller's future fails and the entry
\* stays not synced, and a later maybe_sync starts a new sync whose success
\* makes is_synced() true.
\* ------------------------------------------------------------------------
is_synced == sync_state = "SYNCED"

\* the calls made before call i that ran their syncer
Started(i) == {j \in 1..(i - 1) : futures[j].invoked}

LastStarted(i) == CHOOSE j \in Started(i) : \A k \in Started(i) : k <= j

\* calls made while syncing attach to the sync in flight, calls made while
\* not synced start a sync of their own
SyncShared ==
    /\ \A i \in 1..Len(futures) :
          /\ futures[i].at = "SYNCING" =>
                /\ ~futures[i].invoked
                /\ Started(i) # {}
                /\ futures[i].promise = futures[LastStarted(i)].promise
          /\ futures[i].at = "NOT_SYNCED" => futures[i].invoked
    /\ Len(tasks) = Cardinality({i \in 1..Len(futures) : futures[i].invoked})

\* the continuation of sync i runs in this step and sees this outcome
Completes(i, outcome) ==
    /\ i \in 1..Len(tasks')
    /\ i \in 1..Len(tasks) => ~tasks[i].done
    /\ tasks'[i].done
    /\ tasks'[i].outcome = outcome

\* every future attached to the promise of sync i holds this outcome
AllAttached(i, outcome) ==
    \A k \in 1..Len(futures') :
        futures'[k].promise = tasks'[i].promise
           => FutureState(promises', futures'[k]) = outcome

C31_SharedSync ==
    [][/\ SyncShared'
       /\ \A i \in 1..MaxSyncs :
             /\ Completes(i, "exception") =>
                   /\ AllAttached(i, "exception")
                   /\ ~is_synced'
             /\ Completes(i, "value") =>
                   /\ AllAttached(i, "value")
                   /\ is_synced']_vars

\* a failed sync with an attached caller, then a retry that succeeded
C31_Witness ==
    /\ Len(futures) = 3
    /\ Len(tasks) = 2
    /\ futures[1].invoked
    /\ futures[2].at = "SYNCING"
    /\ futures[2].promise = futures[1].promise
    /\ FutureState(promises, futures[1]) = "exception"
    /\ FutureState(promises, futures[2]) = "exception"
    /\ futures[3].invoked
    /\ futures[3].promise # futures[1].promise
    /\ tasks[2].done
    /\ FutureState(promises, futures[3]) = "value"
    /\ is_synced

\* ------------------------------------------------------------------------
\* schema_registry: get_or_load with an asynchronous loader
\* ------------------------------------------------------------------------
Versions == 1..MaxVersions

\* no entry under this version in _entries
Absent == [state |-> "absent", promise |-> 0]

\* an entry: _state and the index of its _schema_promise
RegistryEntry(state, p) == [state |-> state, promise |-> p]

\* the future get_or_load returned for version v
LoadFuture(v, p, invoked, st) ==
    [version |-> v, promise |-> p, invoked |-> invoked, at |-> st]

\* _entries.emplace(v, e_ptr): keeps an element that is already there
emplace(es, v, e) == IF es[v] = Absent THEN [es EXCEPT ![v] = e] ELSE es

\* _entries.erase(v)
erase(es, v) == [es EXCEPT ![v] = Absent]

\* the continuation of start_loading, run on the entry e it captured while
\* the registry's map is es: load() on success, set_exception and erase
\* on failure
loading_done(e, es, ps, v, failed) ==
    IF e.state # "LOADING"
    THEN [entry |-> e, entries |-> es, promises |-> ps]
    ELSE IF failed
         THEN [entry |-> e,
               entries |-> erase(es, v),
               promises |-> set_exception(ps, e.promise)]
         ELSE [entry |-> RegistryEntry("LOADED", Len(ps) + 1),
               entries |-> es,
               promises |-> NewPromise(set_value(ps, e.promise))]

\* schema_registry::get_or_load(v, async loader): loader is the outcome of
\* the future the loader returns (unknown when it defers); start_loading
\* runs before the entry is put into _entries, and the continuation of a
\* ready future runs inside start_loading unless the reactor asks for
\* preemption
get_or_load(es, ps, fs, ts, v, loader, inline) ==
    LET ps1 == NewPromise(ps)
        e == RegistryEntry("LOADING", Len(ps1))
        r == loading_done(e, es, ps1, v, loader = "exception")
    IN IF es[v] = Absent
       THEN IF loader # "unknown" /\ inline
            THEN [entries |-> emplace(r.entries, v, r.entry),
                  promises |-> r.promises,
                  futures |-> Append(fs, LoadFuture(v, e.promise, TRUE, "absent")),
                  tasks |-> Append(ts, Task(v, e.promise, loader, TRUE))]
            ELSE [entries |-> emplace(es, v, e),
                  promises |-> ps1,
                  futures |-> Append(fs, LoadFuture(v, e.promise, TRUE, "absent")),
                  tasks |-> Append(ts, Task(v, e.promise, loader, FALSE))]
       ELSE IF es[v].state = "LOADING"
       THEN [entries |-> es, promises |-> ps,
             futures |-> Append(fs, LoadFuture(v, es[v].promise, FALSE, "LOADING")),
             tasks |-> ts]
       ELSE [entries |-> es, promises |-> ps,
             futures |-> Append(fs, LoadFuture(v, 0, FALSE, "LOADED")),
             tasks |-> ts]

\* schema_registry::get(v): what it throws, or "schema"
get(es, v) ==
    IF es[v] = Absent \/ es[v].state # "LOADED"
    THEN "schema_version_not_found"
    ELSE "schema"

InitLoad ==
    /\ rtl = <<>>
    /\ hist = <<>>
    /\ ViewIdle
    /\ PartitionIdle
    /\ GenIdle
    /\ CallIdle
    /\ MergerIdle
    /\ entries = [v \in Versions |-> Absent]
    /\ sync_state = "idle"
    /\ promises = <<>>
    /\ futures = <<>>
    /\ tasks = <<>>

\* local_schema_registry().get_or_load(v, loader)
GetOrLoad ==
    /\ Len(futures) < MaxLoads
    /\ \E v \in Versions, loader \in FutureOutcomes, inline \in BOOLEAN :
          LET r == get_or_load(entries, promises, futures, tasks, v, loader,
                               inline)
          IN /\ entries' = r.entries
             /\ promises' = r.promises
             /\ futures' = r.futures
             /\ tasks' = r.tasks
    /\ UNCHANGED <<sync_state, mergerVars, callVars, rtlVars, viewVars,
                   mpVars, genVars>>

\* the future of a deferring loader becomes ready
LoaderResolves ==
    /\ \E i \in 1..Len(tasks), outcome \in {"value", "exception"} :
          /\ tasks[i].outcome = "unknown"
          /\ tasks' = [tasks EXCEPT ![i].outcome = outcome]
    /\ UNCHANGED <<entries, sync_state, promises, futures, mergerVars,
                   callVars, rtlVars, viewVars, mpVars, genVars>>

\* the reactor runs the continuation of a ready loader future; the entry
\* it captured is the one _entries holds for the version
LoadingDone ==
    /\ \E i \in 1..Len(tasks) :
          /\ ~tasks[i].done
          /\ tasks[i].outcome # "unknown"
          /\ LET v == tasks[i].version
                 r == loading_done(entries[v], entries, promises, v,
                                   tasks[i].outcome = "exception")
             IN /\ entries' = IF r.entries[v] = Absent
                              THEN r.entries
                              ELSE [r.entries EXCEPT ![v] = r.entry]
                /\ promises' = r.promises
          /\ tasks' = [tasks EXCEPT ![i].done = TRUE]
    /\ UNCHANGED <<sync_state, futures, mergerVars, callVars, rtlVars,
                   viewVars, mpVars, genVars>>

NextLoad == GetOrLoad \/ LoaderResolves \/ LoadingDone
SpecLoad == InitLoad /\ [][NextLoad]_vars

\* ------------------------------------------------------------------------
\* C32: if the asynchronous loader given to get_or_load fails, whether its
\* future fails later or is already failed when returned, the returned
\* future and every concurrent get_or_load for that version resolve with
\* schema_version_loading_failed and afterwards the registry holds no entry
\* for that version, so that a later get_or_load invokes a loader again;
\* while loading is in progress get() throws schema_version_not_found.
\* ------------------------------------------------------------------------
FailedLoads ==
    {i \in 1..Len(tasks) : tasks[i].done /\ tasks[i].outcome = "exception"}

\* the entry whose loading was task i is no longer in the registry
Erased(i) == entries[tasks[i].version].promise # tasks[i].promise

C32_FailedLoadErased ==
    /\ \A i \in FailedLoads :
          /\ \A k \in 1..Len(futures) :
                futures[k].promise = tasks[i].promise
                   => FutureState(promises, futures[k]) = "exception"
          /\ Erased(i)
    /\ \A v \in Versions :
          entries[v].state = "LOADING" =>
             get(entries, v) = "schema_version_not_found"

\* ------------------------------------------------------------------------
\* C33: within mutation_partition::apply the target's partition tombstone
\* is modified, to the maximum of both tombstones, only after the range
\* tombstone lists, the static row and all clustered rows have been merged
\* without error; in every execution in which one of those earlier steps
\* fails, the target's partition tombstone is never written.
\* ------------------------------------------------------------------------
LaterTombstoneOf(a, b) == IF tombstone_gt(b, a) THEN b ELSE a

C33_TombstoneCommittedLast ==
    /\ mphase = "failed" => target.tombstone = snapshot.tombstone
    /\ mphase = "applied" =>
          target.tombstone = LaterTombstoneOf(snapshot.tombstone, other.tombstone)

\* a merge that failed in the rows although the applied partition carried
\* the later partition tombstone
C33_Witness ==
    /\ mphase = "failed"
    /\ tombstone_gt(other.tombstone, snapshot.tombstone)
    /\ \E k \in PKeys : other.rows[k].exists /\ ~deletable_row_empty(other.rows[k])
    /\ other.row_tombstones = <<>>
    /\ row_size(other.static_row) = 0

\* ------------------------------------------------------------------------
\* C34: if a newly added range starts at or after the end of the current
\* last interval, add appends it as a new last interval with its own bounds
\* and tombstone and leaves every existing interval unchanged; this holds
\* when the range starts after the last interval or the last interval is
\* not a singleton. When the range starts at a last interval that is a
\* singleton, the singleton is replaced by the range if the range's
\* timestamp is greater, and otherwise the range is appended unless it is
\* the same singleton, which is dropped.
\* ------------------------------------------------------------------------
LastInterval == rtl[Len(rtl)]

StartsAtOrAfterLast ==
    /\ Added
    /\ Len(rtl) > 0
    /\ LastInterval.stop <= NewRange.start

WithoutLast == SubSeq(rtl, 1, Len(rtl) - 1)

C34_AppendAfterLast ==
    [][StartsAtOrAfterLast =>
          IF LastInterval.stop < NewRange.start \/ ~Singleton(LastInterval)
          THEN rtl' = Append(rtl, NewRange)
          ELSE IF NewRange.tomb.timestamp > LastInterval.tomb.timestamp
          THEN rtl' = Append(WithoutLast, NewRange)
          ELSE IF Singleton(NewRange)
          THEN rtl' = rtl
          ELSE rtl' = Append(rtl, NewRange)]_vars

\* C34 as stated: the range is appended and nothing else changes, also at
\* a last interval that is a singleton
C34_AlwaysAppended ==
    [][StartsAtOrAfterLast => rtl' = Append(rtl, NewRange)]_vars

\* a last singleton was replaced by a later range starting at it
C34_Witness ==
    /\ Len(hist) = MaxAdds
    /\ hist[1].stop < hist[2].start
    /\ Singleton(hist[2])
    /\ hist[3].start = hist[2].start
    /\ hist[3].start < hist[3].stop
    /\ hist[3].tomb.timestamp > hist[2].tomb.timestamp
    /\ rtl = <<hist[1], hist[3]>>

\* ------------------------------------------------------------------------
\* C35: when a range is added whose timestamp is smaller than or equal to
\* the timestamp of every existing interval it overlaps, each of those
\* intervals keeps its bounds and tombstone unchanged and only the parts of
\* the new range not covered by them are inserted; if the new range is
\* entirely covered, the list is unchanged.
\* ------------------------------------------------------------------------
Elements(l) == {l[i] : i \in 1..Len(l)}

\* the stored intervals sharing more than an endpoint with the new range
Overlapped == {i \in 1..Len(rtl) : Overlapping(rtl[i], NewRange)}

NotNewerThanOverlapped ==
    /\ Added
    /\ Overlapped # {}
    /\ \A i \in Overlapped :
          NewRange.tomb.timestamp <= rtl[i].tomb.timestamp

\* the intervals the add created
Inserted == Elements(rtl') \ Elements(rtl)

\* the unit steps of the new range that lie inside an overlapped interval
CoveredSteps ==
    {k \in NewRange.start..(NewRange.stop - 1) :
        \E i \in Overlapped : rtl[i].start <= k /\ k + 1 <= rtl[i].stop}

\* the unit steps of the new range that lie inside an inserted interval
InsertedSteps ==
    {k \in NewRange.start..(NewRange.stop - 1) :
        \E r \in Inserted : r.start <= k /\ k + 1 <= r.stop}

EntirelyCovered == CoveredSteps = NewRange.start..(NewRange.stop - 1)

C35_OlderRangeFillsGaps ==
    [][NotNewerThanOverlapped =>
          /\ \A i \in Overlapped : rtl[i] \in Elements(rtl')
          /\ \A r \in Inserted :
                /\ r.tomb = NewRange.tomb
                /\ NewRange.start <= r.start
                /\ r.stop <= NewRange.stop
                /\ \A i \in Overlapped : ~Overlapping(r, rtl[i])
          /\ \A k \in NewRange.start..(NewRange.stop - 1) :
                k \in CoveredSteps \/ k \in InsertedSteps
                   \/ \E r \in Elements(rtl) \cap Elements(rtl') :
                         r.start <= k /\ k + 1 <= r.stop
          /\ EntirelyCovered => rtl' = rtl]_vars

\* an older range laid over a newer interval that covers its middle
C35_Witness ==
    /\ Len(hist) = 2
    /\ hist[2].start < hist[1].start
    /\ hist[1].start < hist[1].stop
    /\ hist[1].stop < hist[2].stop
    /\ hist[2].tomb.timestamp < hist[1].tomb.timestamp
    /\ rtl = <<RT(hist[2].start, hist[1].start, hist[2].tomb),
               hist[1],
               RT(hist[1].stop, hist[2].stop, hist[2].tomb)>>

\* ------------------------------------------------------------------------
\* range_tombstone_merger
\* ------------------------------------------------------------------------
\* open_tombstone(start, tomb)
open_tombstone(prefix, tomb) == [prefix |-> prefix, tomb |-> tomb]

\* the empty clustering key prefix _end_contiguous_delete starts with
EmptyPrefix == 0 - 1

Top(st) == st[Len(st)]

Pop(st) == SubSeq(st, 1, Len(st) - 1)

\* how a call of the merger left: its stack, its end of the contiguous
\* delete, whether it threw unsupported_operation_exception, and the
\* prefix it returned if any
Merged(st, e, thrown, ret) ==
    [open |-> st, end |-> e, thrown |-> thrown, ret |-> ret]

\* merge() after the checks: the open tombstone that ends with rt.stop is
\* popped and returned, and the end of the contiguous delete advances
\* while a tombstone stays open
close_top(st, e, r) ==
    LET closes == Top(st).prefix = r.stop
        st1 == IF closes THEN Pop(st) ELSE st
    IN Merged(st1,
              IF st1 # <<>> THEN r.stop ELSE e,
              FALSE,
              IF closes THEN <<Top(st).prefix>> ELSE <<>>)

\* a merge that pushes the range tombstone before it checks it
merger_merge_push_first(st, e, r) ==
    IF st # <<>> /\ e # r.start
    THEN Merged(Append(st, open_tombstone(r.start, r.tomb)), e, TRUE, <<>>)
    ELSE IF st = <<>> \/ r.tomb.timestamp > Top(st).tomb.timestamp
    THEN close_top(Append(st, open_tombstone(r.start, r.tomb)), e, r)
    ELSE IF r.tomb.timestamp < Top(st).tomb.timestamp
    THEN Merged(Append(st, open_tombstone(r.start, r.tomb)), e, TRUE, <<>>)
    ELSE IF r.tomb.deletion_time # Top(st).tomb.deletion_time
    THEN Merged(Append(st, open_tombstone(r.start, r.tomb)), e, TRUE, <<>>)
    ELSE close_top(st, e, r)

\* range_tombstone_merger::merge(s, rt)
merger_merge(st, e, r) ==
    IF st # <<>> /\ e # r.start
    THEN Merged(st, e, TRUE, <<>>)
    ELSE IF st = <<>> \/ r.tomb.timestamp > Top(st).tomb.timestamp
    THEN close_top(Append(st, open_tombstone(r.start, r.tomb)), e, r)
    ELSE IF r.tomb.timestamp < Top(st).tomb.timestamp
    THEN Merged(st, e, TRUE, <<>>)
    ELSE IF r.tomb.deletion_time # Top(st).tomb.deletion_time
    THEN Merged(st, e, TRUE, <<>>)
    ELSE close_top(st, e, r)

\* range_tombstone_merger::verify_no_open_tombstones: the open tombstones
\* are popped into the message of the exception
verify_no_open_tombstones(st, e) == Merged(<<>>, e, st # <<>>, <<>>)

\* a call of the merger, for the history
MergerCall(name, r, m) ==
    [call |-> name, rt |-> r, thrown |-> m.thrown, ret |-> m.ret]

\* range_tombstone_merger()
InitMerger ==
    /\ rtl = <<>>
    /\ hist = <<>>
    /\ ViewIdle
    /\ PartitionIdle
    /\ GenIdle
    /\ CallIdle
    /\ RegistryIdle
    /\ open_tombstones = <<>>
    /\ end_contiguous_delete = EmptyPrefix
    /\ merged = <<>>

\* merger.merge(s, rt)
Merge ==
    /\ Len(merged) < MaxMerges
    /\ \E r \in WellFormed :
          LET m == merger_merge(open_tombstones, end_contiguous_delete, r)
          IN /\ open_tombstones' = m.open
             /\ end_contiguous_delete' = m.end
             /\ merged' = Append(merged, MergerCall("merge", r, m))
    /\ UNCHANGED <<regVars, callVars, rtlVars, viewVars, mpVars, genVars>>

\* merger.verify_no_open_tombstones()
Verify ==
    /\ Len(merged) < MaxMerges
    /\ LET m == verify_no_open_tombstones(open_tombstones,
                                          end_contiguous_delete)
       IN /\ open_tombstones' = m.open
          /\ end_contiguous_delete' = m.end
          /\ merged' = Append(merged, MergerCall("verify", <<>>, m))
    /\ UNCHANGED <<regVars, callVars, rtlVars, viewVars, mpVars, genVars>>

NextMerger == Merge \/ Verify
SpecMerger == InitMerger /\ [][NextMerger]_vars

\* ------------------------------------------------------------------------
\* C36: range_tombstone_merger::merge, when at least one tombstone is open,
\* throws unsupported_operation_exception for a range tombstone whose start
\* differs from the end of the previously merged one, whose timestamp is
\* lower than the innermost open tombstone's, or whose timestamp is equal
\* but deletion time differs, and in these cases leaves the stack of open
\* tombstones unchanged; verify_no_open_tombstones throws exactly when some
\* tombstone is still open.
\* ------------------------------------------------------------------------
MergerCalled(name) ==
    /\ Len(merged') = Len(merged) + 1
    /\ merged'[Len(merged')].call = name

LastCall == merged'[Len(merged')]

\* the end of the range tombstone merged last, of the calls that returned
PreviousEnd ==
    LET done == {i \in 1..Len(merged) :
                    merged[i].call = "merge" /\ ~merged[i].thrown}
    IN merged[CHOOSE i \in done : \A j \in done : j <= i].rt.stop

Unsupported(r) ==
    \/ PreviousEnd # r.start
    \/ r.tomb.timestamp < Top(open_tombstones).tomb.timestamp
    \/ /\ r.tomb.timestamp = Top(open_tombstones).tomb.timestamp
       /\ r.tomb.deletion_time # Top(open_tombstones).tomb.deletion_time

C36_MergerRejects ==
    [][/\ (MergerCalled("merge") /\ open_tombstones # <<>>) =>
             /\ LastCall.thrown <=> Unsupported(LastCall.rt)
             /\ LastCall.thrown => open_tombstones' = open_tombstones
       /\ (MergerCalled("merge") /\ open_tombstones = <<>>) => ~LastCall.thrown
       /\ MergerCalled("verify") =>
             (LastCall.thrown <=> open_tombstones # <<>>)]_vars

\* a contiguous range tombstone with a lower timestamp was rejected and a
\* later verify found the tombstone still open
C36_Witness ==
    /\ Len(merged) = MaxMerges
    /\ merged[1].call = "merge" /\ ~merged[1].thrown
    /\ merged[2].call = "merge" /\ merged[2].thrown
    /\ merged[2].rt.start = merged[1].rt.stop
    /\ merged[2].rt.tomb.timestamp < merged[1].rt.tomb.timestamp
    /\ merged[3].call = "verify" /\ merged[3].thrown

\* ------------------------------------------------------------------------
\* C37: an existing clustering row is turned into a view deletion by an
\* update-side tombstone only if that tombstone covers the row's position:
\* whenever a step consumes only an existing row and calls generate_update
\* for it, the update-side tracker holds a partition tombstone or a range
\* tombstone whose bounds enclose the row's key, also when the updates
\* stream is exhausted.
\* ------------------------------------------------------------------------
\* the step passes the existing head row on and leaves the updates alone
DeletesExistingRow ==
    /\ vpc = "loop"
    /\ ex_head # <<>>
    /\ ~is_range_tombstone(ex_head[1])
    /\ upd_head' = upd_head
    /\ updates' = updates
    /\ Len(calls') = Len(calls) + 1

\* the update side deletes key k
UpdateSideCovers(k) ==
    \/ tombstone_set(upd_tracker.pt)
    \/ /\ upd_tracker.rt # <<>>
       /\ upd_tracker.rt[1].key <= k
       /\ k <= upd_tracker.rt[1].end

C37_DeletionOnlyWhenCovered ==
    [][DeletesExistingRow => UpdateSideCovers(ex_head[1].key)]_vars

\* ------------------------------------------------------------------------
\* C38: in every reachable state of the merge-join, apply_to(row) is
\* invoked only on a tracker that currently holds a range tombstone: the
\* trackers the next on_results step hands a row to have their optional
\* range tombstone engaged.
\* ------------------------------------------------------------------------
\* on_results, lines 453-500: the trackers whose apply_to the step invokes
apply_to_invoked(uh, eh) ==
    IF uh # <<>> /\ eh # <<>>
    THEN LET cmp == tri_compare(position(uh[1]), position(eh[1])) IN
         IF cmp < 0
         THEN IF is_range_tombstone(uh[1]) THEN {} ELSE {"update"}
         ELSE IF cmp < 0
         THEN IF is_range_tombstone(eh[1]) THEN {} ELSE {"existing"}
         ELSE IF is_range_tombstone(uh[1]) \/ is_range_tombstone(eh[1])
         THEN {}
         ELSE {"update", "existing"}
    ELSE {}

C38_ApplyToOnEngagedTracker ==
    vpc = "loop" =>
        /\ "update" \in apply_to_invoked(upd_head, ex_head) => upd_tracker.rt # <<>>
        /\ "existing" \in apply_to_invoked(upd_head, ex_head) => ex_tracker.rt # <<>>

\* ------------------------------------------------------------------------
\* C39: update_entry respects the view filter on both images.  If the
\* existing row does not match the filter the call leaves what create_entry
\* leaves for the update: nothing when the update does not match either,
\* else the view row of the update with its marker, its row tombstone and
\* all its view cells.  If the existing row matches and the update does
\* not, the call only deletes the view row of the existing image.  Only
\* when both match does it write the marker, the row tombstone and those
\* view cells of the update that differ from the existing row.  No view
\* row is created or deleted for an image that fails the filter.
\* ------------------------------------------------------------------------
\* generate_update ran update_entry and nothing else
UpdateEntryRan == gphase = "generated" /\ gen_ops = <<"update_entry">>

\* the map holds the one view row e under key k and nothing else
OnlyViewRow(vu, k, e) ==
    /\ Len(vu) = 1
    /\ vu[1].key = k.pk
    /\ \A ck \in PKeys : vu[1].rows[ck] = IF ck = k.ck THEN e ELSE NoEntry

\* the regular columns of the view, taken from the base cells
ViewCellsOf(view, cells) ==
    [x \in Columns |->
        IF \E c \in Columns : /\ in_view(view, c)
                              /\ ~is_primary_key(view, c)
                              /\ view_column_id(view, c) = x
                              /\ cells[c].present
        THEN cells[CHOOSE c \in Columns : /\ in_view(view, c)
                                          /\ ~is_primary_key(view, c)
                                          /\ view_column_id(view, c) = x
                                          /\ cells[c].present]
        ELSE NoCell]

\* the cells of the update that differ from the existing row: missing
\* there, or written later
DifferingCells(update, existing) ==
    [c \in Columns |->
        IF /\ update.cells[c].present
           /\ (existing.cells[c].present
                 => update.cells[c].cell.timestamp > existing.cells[c].cell.timestamp)
        THEN update.cells[c]
        ELSE NoCell]

\* the shadowing tombstone of a deleted view entry: the latest timestamp of
\* the existing marker and view cells, deleted now
DeletionOf(view, existing) ==
    Tomb(CHOOSE ts \in 0..MaxTs :
            /\ ts >= existing.marker.timestamp
            /\ \A c \in Columns :
                  existing.cells[c].present /\ in_view(view, c)
                      => ts >= existing.cells[c].cell.timestamp
            /\ \/ ts = existing.marker.timestamp
               \/ \E c \in Columns : /\ existing.cells[c].present
                                     /\ in_view(view, c)
                                     /\ ts = existing.cells[c].cell.timestamp,
         now)

UpdateEntryLeaves(vu, view, update, existing, f) ==
    /\ (~f.existing /\ ~f.update => vu = <<>>)
    /\ (~f.existing /\ f.update =>
          OnlyViewRow(vu, ViewKey(view, update),
                      Entry(update.tomb, compute_row_marker(view, update),
                            ViewCellsOf(view, update.cells))))
    /\ (f.existing /\ ~f.update =>
          OnlyViewRow(vu, ViewKey(view, existing),
                      Entry(DeletionOf(view, existing), MissingMarker, EmptyRow)))
    /\ (f.existing /\ f.update =>
          OnlyViewRow(vu, ViewKey(view, update),
                      Entry(update.tomb, compute_row_marker(view, update),
                            ViewCellsOf(view, DifferingCells(update, existing)))))

\* the view rows asked for belong to images that match the filter
TouchedMatches(view, update, existing, f) ==
    /\ (~f.update => \A t \in touched :
                        f.existing /\ t.pk = ViewKey(view, existing).pk
                                   /\ t.ck = ViewKey(view, existing).ck)
    /\ (~f.existing => \A t \in touched :
                        f.update /\ t.pk = ViewKey(view, update).pk
                                 /\ t.ck = ViewKey(view, update).ck)

C39_UpdateEntryFilters ==
    UpdateEntryRan =>
        /\ UpdateEntryLeaves(view_updates[gen_view], Views[gen_view],
                             gen_update[1], gen_existing[1], gen_filter)
        /\ TouchedMatches(Views[gen_view], gen_update[1], gen_existing[1], gen_filter)

\* both images match and the update repeats a view cell of the existing
\* row, which is left out of the written view row
C39_Witness ==
    /\ UpdateEntryRan
    /\ gen_filter.existing
    /\ gen_filter.update
    /\ ViewCellsOf(Views[gen_view], gen_update[1].cells) # EmptyRow
    /\ \A ck \in PKeys :
          view_updates[gen_view][1].rows[ck].exists
              => /\ view_updates[gen_view][1].rows[ck].cells = EmptyRow
                 /\ view_updates[gen_view][1].rows[ck].marker # MissingMarker

\* ------------------------------------------------------------------------
\* view::may_be_affected_by: the key tests and the column test
\* ------------------------------------------------------------------------
\* a range of the view's select statement, both bounds inclusive
KeyRange(lo, hi) == [lo |-> lo, hi |-> hi]
KeyRanges == {r \in {KeyRange(lo, hi) : lo \in PKeys, hi \in PKeys} : r.lo <= r.hi}

\* partition_ranges() and row_ranges(): vectors of ranges
RangeVectors(n) == UNION {[1..m -> KeyRanges] : m \in 0..n}

\* range.contains(rp, cmp); !less(ck, bounds.first) && !less(bounds.second, ck)
range_contains(r, k) == r.lo <= k /\ k <= r.hi

\* view::partition_key_matches: std::any_of over partition_ranges()
partition_key_matches(view, key) ==
    \E i \in 1..Len(view.partition_ranges) :
        range_contains(view.partition_ranges[i], key)

\* view::clustering_prefix_matches: std::any_of over the row ranges
clustering_prefix_matches(view, ck) ==
    \E i \in 1..Len(view.row_ranges) : range_contains(view.row_ranges[i], ck)

\* for_each_cell_until over the cells from column c on: stop at the first
\* updated column that the view defines
RECURSIVE updates_view_column(_, _, _)
updates_view_column(view, cells, c) ==
    IF c = NumCols
    THEN FALSE
    ELSE IF cells[c].present /\ c \in view.columns
    THEN TRUE
    ELSE updates_view_column(view, cells, c + 1)

\* view::may_be_affected_by(base, key, update)
may_be_affected_by(view, key, update) ==
    IF /\ ~partition_key_matches(view, key)
       /\ ~clustering_prefix_matches(view, update.key)
    THEN FALSE
    ELSE IF \/ view.include_all_columns
            \/ tombstone_set(update.tomb)
            \/ is_live(update.marker)
    THEN TRUE
    ELSE updates_view_column(view, update.cells, 0)

\* the views of the calls: their ranges, include_all_columns and the base
\* regular columns they define
FilteredViews ==
    [partition_ranges : RangeVectors(MaxRanges),
     row_ranges : RangeVectors(MaxRanges),
     include_all_columns : BOOLEAN,
     columns : SUBSET Columns]

\* the updated rows of the calls
AffectingRows ==
    {clustering_row(k, t, m, [c \in Columns |-> IF c = 0 THEN c0 ELSE c1]) :
        k \in PKeys,
        t \in {EmptyTombstone, Tomb(1, 0)},
        m \in {MissingMarker, LiveMarker(1), DeadMarker(1)},
        c0 \in {NoCell, Present(make_live(1, 0))},
        c1 \in {NoCell, Present(make_live(1, 0))}}

InitAffected ==
    /\ rtl = <<>>
    /\ hist = <<>>
    /\ ViewIdle
    /\ PartitionIdle
    /\ GenIdle
    /\ call_args \in [view : FilteredViews, key : PKeys, update : AffectingRows]
    /\ call_result = <<>>
    /\ call_pc = "call"
    /\ RegistryIdle
    /\ MergerIdle

\* view.may_be_affected_by(base, key, update)
MayBeAffectedBy ==
    /\ call_pc = "call"
    /\ call_result' = may_be_affected_by(call_args.view, call_args.key,
                                         call_args.update)
    /\ call_pc' = "returned"
    /\ UNCHANGED <<call_args, regVars, mergerVars, rtlVars, viewVars, mpVars, genVars>>

NextAffected == MayBeAffectedBy
SpecAffected == InitAffected /\ [][NextAffected]_vars

\* ------------------------------------------------------------------------
\* C40: may_be_affected_by returns false whenever the update's primary key
\* is excluded by the view filter, that is whenever the partition key is
\* outside the view's partition ranges or the clustering key is outside
\* the view's clustering ranges; otherwise it returns true iff the view
\* includes all columns, or the update carries a row tombstone or a live
\* row marker, or some updated regular column is a column of the view.
\* ------------------------------------------------------------------------
\* some range of the vector holds the key
InRanges(ranges, k) ==
    \E i \in 1..Len(ranges) : ranges[i].lo <= k /\ k <= ranges[i].hi

PrimaryKeyExcluded ==
    \/ ~InRanges(call_args.view.partition_ranges, call_args.key)
    \/ ~InRanges(call_args.view.row_ranges, call_args.update.key)

TouchesView ==
    \/ call_args.view.include_all_columns
    \/ call_args.update.tomb.timestamp # 0
    \/ (call_args.update.marker.timestamp # 0 /\ call_args.update.marker.ttl # dead)
    \/ \E c \in Columns : /\ call_args.update.cells[c].present
                          /\ c \in call_args.view.columns

C40_AffectedUnlessExcluded ==
    call_pc = "returned" =>
        call_result = IF PrimaryKeyExcluded THEN FALSE ELSE TouchesView

====
